---- MODULE Spec2Model ----
(***************************************************************************)
(* Business-hours evaluation of the contact-center extract scripts.        *)
(*                                                                         *)
(* Two programs carry the evaluator was_call_during_open_hours:            *)
(*   "hourly"   src/lambda/package/lambda_function.py                      *)
(*   "backfill" src/lambda_backfill/package/lambda_function.py             *)
(* The model follows both; the variable prog says which one is running.    *)
(* Further specifications follow the warehouse loader (lambda_looker), the *)
(* report API (lambda_api), retry_with_backoff, the paged contact search,  *)
(* the hour range of an hourly run and get_csat_evaluations.py.            *)
(*                                                                         *)
(* Time is counted in seconds from Monday 2024-10-28T00:00:00Z (day 0).    *)
(* A timestamp is a record [kind, wall, off, aware]: kind is "datetime",    *)
(* "str" (an ISO string) or "none" (Python None); wall is the number of    *)
(* seconds its calendar fields spell out; aware says whether it carries a  *)
(* tzinfo and off is then its UTC offset in seconds.  The instant of an    *)
(* aware datetime is wall - off.                                           *)
(***************************************************************************)
EXTENDS Integers, Sequences, FiniteSets, TLC

None == "None"

SecondsPerMinute == 60 * 1
SecondsPerHour == 60 * 60
SecondsPerDay == 24 * SecondsPerHour

DayNames == <<"MONDAY", "TUESDAY", "WEDNESDAY", "THURSDAY", "FRIDAY", "SATURDAY", "SUNDAY">>

\* wall-clock seconds of day d at h:m:s
At(d, h, m, s) == d * SecondsPerDay + h * SecondsPerHour + m * SecondsPerMinute + s

DateOf(wall) == wall \div SecondsPerDay
HourOf(wall) == (wall % SecondsPerDay) \div SecondsPerHour
MinuteOf(wall) == (wall % SecondsPerHour) \div SecondsPerMinute
SecondOf(wall) == wall % SecondsPerMinute

\* call_time.strftime('%A').upper()
DayName(wall) == DayNames[(DateOf(wall) % 7) + 1]

\* datetime.replace(hour=h, minute=m, second=0, microsecond=0): same calendar date
ReplaceHM(wall, h, m) == At(DateOf(wall), h, m, 0)

Naive(wall) == [kind |-> "datetime", wall |-> wall, off |-> 0, aware |-> FALSE]
Aware(wall, off) == [kind |-> "datetime", wall |-> wall, off |-> off, aware |-> TRUE]
IsoString(wall, off) == [kind |-> "str", wall |-> wall, off |-> off, aware |-> TRUE]
NoTimestamp == [kind |-> "none", wall |-> 0, off |-> 0, aware |-> FALSE]
InstantOf(dt) == dt.wall - dt.off

\* datetime.isoformat(): calendar date, time of day and, for an aware
\* datetime, the UTC offset (in minutes); a naive one prints no offset.
isoformat(dt) ==
    [date |-> DateOf(dt.wall),
     time |-> <<HourOf(dt.wall), MinuteOf(dt.wall), SecondOf(dt.wall)>>,
     has_offset |-> dt.aware,
     offset |-> IF dt.aware THEN dt.off \div SecondsPerMinute ELSE 0]

NoLocalTime == [date |-> 0, time |-> <<0, 0, 0>>, has_offset |-> FALSE, offset |-> 0]

(***************************************************************************)
(* The timezone database (pytz).  America/Chicago leaves daylight time on  *)
(* 2024-11-03 07:00Z (day 6) and enters it on 2025-03-09 08:00Z (day 132). *)
(***************************************************************************)
KnownZones == {"UTC", "America/Chicago", "Asia/Tokyo"}

FallBack == At(6, 7, 0, 0)
SpringForward == At(132, 8, 0, 0)

\* utcoffset of the zone at an instant
UtcOffset(zone, instant) ==
    CASE zone = "UTC" -> 0
      [] zone = "Asia/Tokyo" -> 9 * SecondsPerHour
      [] zone = "America/Chicago" ->
            IF instant >= FallBack /\ instant < SpringForward
            THEN -6 * SecondsPerHour
            ELSE -5 * SecondsPerHour

\* dt.astimezone(zone) of an aware datetime
astimezone(dt, zone) ==
    LET inst == InstantOf(dt)
        off == UtcOffset(zone, inst)
    IN Aware(inst + off, off)

\* pytz.utc.localize(naive)
utc_localize(dt) == Aware(dt.wall, 0)

\* zone.localize(naive wall) with the default is_dst=False: the standard-time
\* reading when the wall time exists in standard time (also when it is
\* ambiguous), the daylight reading when only that exists, and the standard
\* offset for a wall time the spring-forward gap skips.
localize(zone, wall) ==
    IF zone = "America/Chicago"
    THEN LET std == -6 * SecondsPerHour
             dst == -5 * SecondsPerHour
         IN IF UtcOffset(zone, wall - std) = std THEN Aware(wall, std)
            ELSE IF UtcOffset(zone, wall - dst) = dst THEN Aware(wall, dst)
            ELSE Aware(wall, std)
    ELSE Aware(wall, UtcOffset(zone, 0))

(***************************************************************************)
(* Outcomes of a call of the evaluator.                                    *)
(***************************************************************************)
\* during_hours is "True", "False" or "None"
Return(during, tz, local) ==
    [kind |-> "return", during_hours |-> during, timezone |-> tz,
     local_time |-> local, error |-> ""]
Raise(err) ==
    [kind |-> "raise", during_hours |-> "-", timezone |-> "-",
     local_time |-> NoLocalTime, error |-> err]
Continue ==
    [kind |-> "continue", during_hours |-> "-", timezone |-> "-",
     local_time |-> NoLocalTime, error |-> ""]

IsDatetime(ts) == ts.kind = "datetime"
IsStr(ts) == ts.kind = "str"

\* datetime.fromisoformat(s.replace('Z', '+00:00'))
fromisoformat(ts) == Aware(ts.wall, ts.off)

\* what get_hours_of_operation returns: None, or the HoursOfOperation
\* structure with its TimeZone (None when the field is missing) and Config
NoHours == [found |-> FALSE, TimeZone |-> None, Config |-> <<>>]
Hours(tz, config) == [found |-> TRUE, TimeZone |-> tz, Config |-> config]

is_24_7_never(entry) ==
    /\ entry.StartTime.Hours = 24
    /\ entry.EndTime.Hours = 24

\* "if start_hour == 0 and start_minute == 0 and end_hour == 0 and end_minute == 0"
is_24_7(entry) ==
    /\ entry.StartTime.Hours = 0
    /\ entry.StartTime.Minutes = 0
    /\ entry.EndTime.Hours = 0
    /\ entry.EndTime.Minutes = 0

entry_start_time(entry, zone, call_time) ==
    localize(zone, ReplaceHM(call_time.wall, entry.StartTime.Hours, entry.StartTime.Minutes))

entry_end_time(entry, zone, call_time) ==
    localize(zone, ReplaceHM(call_time.wall, entry.EndTime.Hours, entry.EndTime.Minutes))

in_interval_end_excluded(start_time, call_time, end_time) ==
    /\ InstantOf(start_time) <= InstantOf(call_time)
    /\ InstantOf(call_time) < InstantOf(end_time)

\* "start_time <= call_time <= end_time"
in_interval(start_time, call_time, end_time) ==
    /\ InstantOf(start_time) <= InstantOf(call_time)
    /\ InstantOf(call_time) <= InstantOf(end_time)

day_matches_any(entry, call_time) == TRUE

\* "if config['Day'] == day_name", day_name being call_time.strftime('%A').upper()
day_matches(entry, call_time) == entry.Day = DayName(call_time.wall)

\* the for loop over hours_of_operation['Config'], from entry k on: TRUE when
\* some entry of the day returns during_hours True
RECURSIVE scan_entries(_, _, _, _)
scan_entries(config, k, zone, call_time) ==
    IF k > Len(config) THEN FALSE
    ELSE LET entry == config[k] IN
         IF day_matches(entry, call_time)
         THEN IF is_24_7(entry) THEN TRUE
              ELSE IF in_interval(entry_start_time(entry, zone, call_time),
                                  call_time,
                                  entry_end_time(entry, zone, call_time))
                   THEN TRUE
                   ELSE scan_entries(config, k + 1, zone, call_time)
         ELSE scan_entries(config, k + 1, zone, call_time)

make_aware_as_local(dt, zone) == IF dt.aware THEN dt ELSE localize(zone, dt.wall)

\* "if initiation_timestamp.tzinfo is None: pytz.utc.localize(...)": a naive
\* timestamp is taken as UTC, whatever the queue's zone
make_aware(dt, zone) == IF dt.aware THEN dt ELSE utc_localize(dt)

local_call_time_in_utc(dt, zone) == make_aware(dt, zone)

\* call_time = initiation_timestamp.astimezone(tz)
local_call_time(dt, zone) == astimezone(make_aware(dt, zone), zone)

convert_and_decide_utc_when_closed(program, timezone_str, config, ts) ==
    IF timezone_str \notin KnownZones THEN Raise("AttributeError")
    ELSE IF IsStr(ts) /\ program = "hourly" THEN Raise("AttributeError")
    ELSE LET dt == IF IsStr(ts) THEN fromisoformat(ts) ELSE ts
             call_time == local_call_time(dt, timezone_str)
         IN IF scan_entries(config, 1, timezone_str, call_time)
            THEN Return("True", timezone_str, isoformat(call_time))
            ELSE Return("False", "UTC", isoformat(make_aware(dt, timezone_str)))

\* the try block: convert to the queue's zone and look the day up.
\* pytz.timezone() of an unknown name raises UnknownTimeZoneError; the
\* handler names pytz.exceptions.PytzError, which pytz does not define, so
\* evaluating the except clause raises AttributeError.
convert_and_decide(program, timezone_str, config, ts) ==
    IF timezone_str \notin KnownZones THEN Raise("AttributeError")
    ELSE IF IsStr(ts) /\ program = "hourly" THEN Raise("AttributeError")
    ELSE LET dt == IF IsStr(ts) THEN fromisoformat(ts) ELSE ts
             call_time == local_call_time(dt, timezone_str)
         IN Return(IF scan_entries(config, 1, timezone_str, call_time) THEN "True" ELSE "False",
                   timezone_str, isoformat(call_time))

\* the short circuits at the top of was_call_during_open_hours; "continue"
\* when neither applies and the hours of operation are needed
short_circuit(queue_id, ts, method) ==
    IF queue_id = None
    THEN IF IsDatetime(ts) THEN Return(None, "UTC", isoformat(ts))
         ELSE Raise("AttributeError")
    ELSE IF method = "EXTERNAL_OUTBOUND"
    THEN IF IsDatetime(ts) THEN Return("True", "UTC", isoformat(ts))
         ELSE Raise("AttributeError")
    ELSE Continue

decide_with_hours_defaulting(program, ts, hours_of_operation) ==
    IF ~hours_of_operation.found \/ hours_of_operation.TimeZone = None
    THEN Return("False", "UTC", NoLocalTime)
    ELSE IF ts.kind = "none" THEN Raise("ValueError: Missing timestamp")
    ELSE convert_and_decide(program, hours_of_operation.TimeZone, hours_of_operation.Config, ts)

\* what follows hours_of_operation = get_hours_of_operation(queue_id)
decide_with_hours(program, ts, hours_of_operation) ==
    IF ~hours_of_operation.found THEN Raise("ValueError: Could not retrieve hours of operation")
    ELSE IF program = "hourly" /\ ts.kind = "none" THEN Raise("ValueError: Missing timestamp")
    ELSE IF hours_of_operation.TimeZone = None THEN Raise("ValueError: No timezone specified")
    ELSE IF ts.kind = "none" THEN Raise("AttributeError")
    ELSE convert_and_decide(program, hours_of_operation.TimeZone, hours_of_operation.Config, ts)

queue_name_lookup_unguarded(q, cache) == q = None \/ cache[q] = "absent"

\* get_queue_name asks describe_queue only for a queue id it has not cached:
\* "if not queue_id: return None", "if queue_id in queue_cache: return ..."
queue_name_lookup(q, cache) == q # None /\ cache[q] = "absent"

(***************************************************************************)
(* Inputs and bounds.                                                      *)
(***************************************************************************)
\* longest Config list a describe_hours_of_operation response carries
MaxEntries == 2
\* how many throttling errors the remote API answers with in one run
MaxThrottles == 1

\* max_retries of retry_with_backoff
max_retries == 15

QueueIds == {"q1", "q2"}
QueueNames == {"Sales", None}

HM(h, m) == [Hours |-> h, Minutes |-> m]
Entry(day, start, end) == [Day |-> day, StartTime |-> start, EndTime |-> end]

\* the day entries a queue's configuration is built from
EntryChoices ==
    {Entry("MONDAY", HM(9, 0), HM(17, 0)),
     Entry("MONDAY", HM(0, 0), HM(0, 0)),
     Entry("SUNDAY", HM(9, 0), HM(21, 0)),
     Entry("TUESDAY", HM(0, 0), HM(0, 0))}

RECURSIVE SeqsUpTo(_, _)
SeqsUpTo(S, n) ==
    IF n = 0 THEN {<<>>}
    ELSE LET shorter == SeqsUpTo(S, n - 1)
         IN shorter \cup {Append(q, e) : q \in shorter, e \in S}

Configs == SeqsUpTo(EntryChoices, MaxEntries)

\* TimeZone of a response: a known zone, a name pytz does not know, or missing
ZoneChoices == KnownZones \cup {"Mars/Olympus", None}

HoursChoices == {Hours(tz, config) : tz \in ZoneChoices, config \in Configs}

\* instants (UTC wall clock) of Sunday 2024-11-10 (day 13), Monday 2024-11-11
\* (day 14) and Tuesday 2024-11-12 (day 15)
Stamps ==
    {At(13, 23, 30, 0), At(13, 23, 59, 0),
     At(14, 0, 0, 0), At(14, 2, 0, 0), At(14, 8, 0, 0), At(14, 8, 1, 0),
     At(14, 8, 59, 0), At(14, 9, 0, 0), At(14, 14, 59, 0), At(14, 15, 0, 0),
     At(14, 17, 0, 0), At(14, 17, 0, 30), At(14, 17, 1, 0), At(14, 22, 30, 0),
     At(14, 23, 0, 0), At(14, 23, 1, 0), At(14, 23, 30, 0),
     At(15, 23, 10, 44)}

Datetimes ==
    {Naive(w) : w \in Stamps} \cup {Aware(w, 0) : w \in Stamps}
        \cup {Aware(At(14, 16, 0, 0), SecondsPerHour)}

\* the timestamps an evaluation may be handed
Timestamps(program) ==
    Datetimes \cup {NoTimestamp}
        \cup (IF program = "backfill" THEN {IsoString(At(14, 15, 0, 0), 0)} ELSE {})

Methods == {"INBOUND", "EXTERNAL_OUTBOUND"}

\* a contact as the search (hourly) or describe_contact (backfill) gives it,
\* with the warehouse row the backfill read for it
ContactRow(id, queue_id, agent_id, ts, method, eval_id, row_queue_id, row_queue_name) ==
    [Id |-> id, QueueId |-> queue_id, AgentId |-> agent_id,
     InitiationTimestamp |-> ts, InitiationMethod |-> method,
     EvaluationId |-> eval_id, RowQueueId |-> row_queue_id, RowQueueName |-> row_queue_name]

Contact(id, queue_id, agent_id, ts, method) ==
    ContactRow(id, queue_id, agent_id, ts, method, None, None, None)

AgentIds == {"a1"}
AgentNames == {"alice", None}
ContactIds == {"c1", "c2", "c3"}

\* most contacts a run works through
MaxContacts == 2

\* initiation_timestamp of the backfill loop body
BackfillTimestamp == Aware(At(15, 23, 10, 44), 0)

SampleHours ==
    {Hours("America/Chicago", <<Entry("MONDAY", HM(9, 0), HM(17, 0)),
                                Entry("TUESDAY", HM(0, 0), HM(0, 0))>>),
     Hours("UTC", <<Entry("MONDAY", HM(9, 0), HM(17, 0))>>),
     Hours(None, <<>>)}

\* hours of operation of a Chicago queue whose Sunday opens or closes inside
\* the hour a daylight-saving change repeats (01:00-02:00) or skips
\* (02:00-03:00)
DstEntries ==
    {Entry("SUNDAY", HM(1, 30), HM(17, 0)),
     Entry("SUNDAY", HM(0, 0), HM(1, 30)),
     Entry("SUNDAY", HM(2, 30), HM(17, 0)),
     Entry("SUNDAY", HM(9, 0), HM(17, 0))}

DstHours == {Hours("America/Chicago", <<e>>) : e \in DstEntries}

\* calls on Sunday 2024-11-03 (day 6, the clock goes back at 07:00Z) and on
\* Sunday 2025-03-09 (day 132, the clock goes forward at 08:00Z)
DstStamps ==
    {At(6, 5, 30, 0), At(6, 6, 15, 0), At(6, 6, 45, 0), At(6, 7, 15, 0),
     At(6, 7, 45, 0), At(6, 8, 30, 0), At(6, 15, 0, 0), At(6, 23, 0, 0),
     At(6, 23, 1, 0),
     At(132, 7, 45, 0), At(132, 8, 15, 0), At(132, 8, 45, 0), At(132, 14, 0, 0),
     At(132, 22, 0, 0), At(132, 22, 1, 0)}

SampleContacts(program) ==
    IF program = "hourly"
    THEN {Contact(id, c[1], c[2], c[3], c[4]) :
            id \in ContactIds,
            c \in {<<None, None, Aware(At(14, 15, 0, 0), 0), "INBOUND">>,
                   <<"q1", "a1", Aware(At(14, 15, 0, 0), 0), "INBOUND">>,
                   <<"q2", None, Aware(At(14, 23, 30, 0), 0), "INBOUND">>,
                   <<"q1", "a1", Aware(At(14, 15, 0, 0), 0), "EXTERNAL_OUTBOUND">>,
                   <<"q1", None, NoTimestamp, "INBOUND">>}}
    ELSE {ContactRow(id, c[1], c[2], BackfillTimestamp, c[3], id, c[4], c[5]) :
            id \in ContactIds,
            c \in {<<None, None, "INBOUND", None, None>>,
                   <<"q1", "a1", "INBOUND", None, None>>,
                   <<"q1", "a1", "INBOUND", "q1", "Sales">>,
                   <<"q2", None, "INBOUND", "q1", "Sales">>,
                   <<"q1", "a1", "EXTERNAL_OUTBOUND", None, None>>}}

\* the EvaluationId of another, earlier evaluation of a contact
EarlierEvaluationId(id) ==
    CASE id = "c1" -> "c1-earlier"
      [] id = "c2" -> "c2-earlier"
      [] OTHER -> "c3-earlier"

\* the rows of a query result: those of the contacts found, some of them
\* preceded by the row of an earlier evaluation of the same contact
RECURSIVE WithEarlierRows(_, _, _)
WithEarlierRows(found, earlier, i) ==
    IF i > Len(found) THEN <<>>
    ELSE (IF i \in earlier
          THEN <<[found[i] EXCEPT !.EvaluationId = EarlierEvaluationId(found[i].Id)]>>
          ELSE <<>>)
         \o <<found[i]>> \o WithEarlierRows(found, earlier, i + 1)

\* existing_records = {row['ContactId']: row for row in query_result}: a key
\* keeps the place of its first row and the value of its last row
RECURSIVE existing_records(_)
existing_records(rows) ==
    IF rows = <<>> THEN <<>>
    ELSE LET row == rows[Len(rows)]
             before == existing_records(SubSeq(rows, 1, Len(rows) - 1))
         IN IF \E i \in 1..Len(before) : before[i].Id = row.Id
            THEN [i \in 1..Len(before) |-> IF before[i].Id = row.Id THEN row ELSE before[i]]
            ELSE Append(before, row)

(***************************************************************************)
(* Events, and the data of the warehouse loader.                           *)
(***************************************************************************)
\* an event: queryStringParameters is absent, null or a dict; a dict may
\* carry skipS3 (hourly), date and test_mode (loader), date and returnCsv
\* (report API)
Event(query, skipS3, date, test_mode, return_csv) ==
    [query |-> query, skipS3 |-> skipS3, date |-> date, test_mode |-> test_mode,
     return_csv |-> return_csv]

NoQuery == Event("absent", FALSE, "absent", FALSE, FALSE)
NullQuery == Event("null", FALSE, "absent", FALSE, FALSE)

\* the events of the report API: those of test_lambda.py (a date, with and
\* without returnCsv), no date, a malformed date, no query string at all
ReportEvents ==
    {NoQuery, NullQuery,
     Event("dict", FALSE, "absent", FALSE, FALSE),
     Event("dict", FALSE, "invalid", FALSE, TRUE),
     Event("dict", FALSE, "valid", FALSE, FALSE),
     Event("dict", FALSE, "valid", FALSE, TRUE)}

\* most files stored under the prefix of a date
MaxFiles == 2

\* a stored file: its results (their EvaluationId), or content that is no JSON
StoredFile(readable, results) == [readable |-> readable, results |-> results]

\* the events a handler is invoked with: the empty event of test_lambda.py,
\* an API Gateway event without query string, one asking to skip the upload
HandlerEvents(program) ==
    IF program = "hourly"
    THEN {NoQuery, NullQuery, Event("dict", TRUE, "absent", FALSE, FALSE)}
    ELSE {NoQuery}

\* response of a handler whose exception was not caught
Unhandled == -1

\* the events a loader run is invoked with: the event of test_lambda.py
\* (no date: today), a date, a malformed date, test_mode, a null query
LoaderEvents(program) ==
    {NoQuery, NullQuery,
     Event("dict", FALSE, "valid", FALSE, FALSE),
     Event("dict", FALSE, "invalid", FALSE, FALSE)}
    \cup IF program = "loader_csv"
         THEN {Event("dict", FALSE, "valid", TRUE, FALSE)}
         ELSE {}

EvaluationIds == {"e1", "e2"}

\* most records the report API serves for a date
MaxRecords == 2

\* most loader runs
MaxRuns == 2
Runs == 1..MaxRuns

NoApi == [status_code |-> 0, records |-> <<>>]

\* a loader run that has not started
IdleRun ==
    [pc |-> "idle", records |-> <<>>, existing_ids |-> {}, records_to_load |-> <<>>,
     statusCode |-> 0, after |-> {}, table_at_start |-> <<>>]

(***************************************************************************)
(* State.                                                                  *)
(***************************************************************************)
VARIABLES
    prog,               \* the program that is running: "hourly", "backfill", ...
    contacts,           \* the contacts the run works through
    instance,           \* which hours of operation the Connect instance may hold
    idx,                \* position of the contact being processed
    pc,                 \* position in the code
    queue_cache,        \* queue_cache: queue id -> name, "absent" when not cached
    agent_cache,        \* agent_cache: agent id -> name, "absent" when not cached
    hours_cache,        \* lru_cache of get_hours_of_operation
    hours_of_operation, \* local of was_call_during_open_hours
    outcome,            \* what was_call_during_open_hours returned or raised
    names,              \* locals of the loop body: queue_name, agent_name
    call,               \* the remote call in progress: api, call site, attempt
    throttlesLeft,      \* throttling errors the API may still answer with
    evCalls,            \* remote lookups attempted since the evaluation began
    sleeps,             \* time.sleep calls of retry_with_backoff since then
    out,                \* contacts (hourly) or updates (backfill) appended so far
    response,           \* statusCode the handler returned, 0 while it runs
    caught,             \* the step whose exception the handler's except caught
    event,              \* the event the handler is invoked with
    bucket,             \* the files stored under the prefix of the event's date
    api_data,           \* what the report API answers the loader
    table,              \* rows of the warehouse table (their EvaluationId)
    runs,               \* the loader runs: position and locals of each
    pages,              \* the pages the contact search is served: contacts of each
    next_token,         \* next_token of search_contacts
    requests,           \* the NextToken of each page request sent so far
    fetches,            \* queue id -> runs of the body of get_hours_of_operation
    clock,              \* datetime.utcnow(), in seconds
    hour_runs,          \* the hourly runs so far: time range, S3 path, contacts stored
    evaluations,        \* get_csat_evaluations.py: local of the loop, unbound at first
    failed_listings,    \* the contacts whose list_contact_evaluations failed
    query_result,       \* backfill: the rows the SELECT read, in order
    updated             \* backfill: EvaluationId of the rows an UPDATE has changed

vars == <<prog, contacts, instance, idx, pc, queue_cache, agent_cache, hours_cache,
          hours_of_operation, outcome, names, call, throttlesLeft, evCalls, sleeps,
          out, response, caught, event, bucket, api_data, table, runs, pages,
          next_token, requests, fetches, clock, hour_runs, evaluations,
          failed_listings, query_result, updated>>

inputVars == <<prog, contacts, instance, event, bucket>>
cacheVars == <<queue_cache, agent_cache, hours_cache>>
evalVars == <<hours_of_operation, outcome>>
countVars == <<evCalls, sleeps>>
driverVars == <<names, out, response, caught>>
loaderVars == <<api_data, table, runs>>
pagingVars == <<pages, next_token, requests>>
hourVars == <<clock, hour_runs>>
csatVars == <<evaluations, failed_listings>>
warehouseVars == <<query_result, updated>>

NoCall == [api |-> "", site |-> "", attempt |-> 0]
NoLookups == [describe_queue |-> 0, describe_hours_of_operation |-> 0]
NotCached == [cached |-> FALSE, value |-> NoHours]
NoOutcome == [kind |-> "none", during_hours |-> "-", timezone |-> "-",
              local_time |-> NoLocalTime, error |-> ""]
NoNames == [queue_name |-> None, agent_name |-> None]

cur == contacts[idx]
queue_id == cur.QueueId
agent_id == cur.AgentId
initiation_timestamp == cur.InitiationTimestamp
initiation_method == cur.InitiationMethod

\* the HoursOfOperation structures describe_hours_of_operation may answer with
ServedHours ==
    IF instance = "any" THEN HoursChoices
    ELSE IF instance = "dst" THEN DstHours
    ELSE SampleHours

EmptyCaches ==
    /\ queue_cache = [q \in QueueIds |-> "absent"]
    /\ agent_cache = [a \in AgentIds |-> "absent"]
    /\ hours_cache = [q \in QueueIds |-> NotCached]

Idle ==
    /\ EmptyCaches
    /\ fetches = [q \in QueueIds |-> 0]
    /\ hours_of_operation = NoHours
    /\ outcome = NoOutcome
    /\ names = NoNames
    /\ call = NoCall
    /\ throttlesLeft \in 0..MaxThrottles
    /\ evCalls = NoLookups
    /\ sleeps = 0
    /\ out = <<>>
    /\ response = 0
    /\ caught = ""

\* params['NextToken'] is left out: the request carries no token
NoToken == 0

\* the backfill has read and changed no row
NoRows ==
    /\ query_result = <<>>
    /\ updated = {}

\* a local variable no assignment has reached yet
Unbound == [bound |-> FALSE, value |-> <<>>]

\* get_evaluations of get_csat_evaluations.py is not running
NoCsat ==
    /\ evaluations = Unbound
    /\ failed_listings = {}

\* no hourly run has computed its time range
NoHourRun ==
    /\ clock = 0
    /\ hour_runs = <<>>

\* no contact search is paging
NoPaging ==
    /\ pages = <<>>
    /\ next_token = NoToken
    /\ requests = <<>>

\* no loader is running
NoLoader ==
    /\ api_data = NoApi
    /\ table = <<>>
    /\ runs = [r \in Runs |-> IdleRun]

\* one call of was_call_during_open_hours on any input
InitEval ==
    /\ prog \in {"hourly", "backfill"}
    /\ \E q \in {None, "q1"}, ts \in Timestamps(prog), m \in Methods :
          contacts = <<Contact("c1", q, None, ts, m)>>
    /\ instance = "any"
    /\ event = NoQuery
    /\ bucket = <<>>
    /\ idx = 1
    /\ pc = "eval"
    /\ Idle
    /\ NoHourRun
    /\ NoRows
    /\ NoCsat
    /\ NoPaging
    /\ NoLoader

\* one call of was_call_during_open_hours on a day the clock changes
InitDst ==
    /\ prog \in {"hourly", "backfill"}
    /\ \E t \in DstStamps : contacts = <<Contact("c1", "q1", None, Aware(t, 0), "INBOUND")>>
    /\ instance = "dst"
    /\ event = NoQuery
    /\ bucket = <<>>
    /\ idx = 1
    /\ pc = "eval"
    /\ Idle
    /\ NoHourRun
    /\ NoRows
    /\ NoCsat
    /\ NoPaging
    /\ NoLoader

\* one run of a handler over the contacts it finds
Init ==
    /\ prog \in {"hourly", "backfill"}
    /\ \E found \in SeqsUpTo(SampleContacts(prog), MaxContacts),
          earlier \in SUBSET (1..MaxContacts) :
          /\ \A i, j \in 1..Len(found) : found[i].Id = found[j].Id => i = j
          /\ earlier \subseteq 1..Len(found)
          /\ prog = "hourly" => earlier = {}
          /\ query_result = IF prog = "backfill" THEN WithEarlierRows(found, earlier, 1) ELSE <<>>
          /\ contacts = IF prog = "backfill" THEN existing_records(query_result) ELSE found
    /\ updated = {}
    /\ instance = "sample"
    /\ event \in HandlerEvents(prog)
    /\ bucket = <<>>
    /\ idx = 1
    /\ pc = "handler"
    /\ Idle
    /\ NoHourRun
    /\ NoCsat
    /\ NoPaging
    /\ NoLoader

(***************************************************************************)
(* Remote calls.  In the hourly program every Connect call goes through    *)
(* retry_with_backoff; the backfill calls the clients directly.            *)
(***************************************************************************)
StartCall(api, site) ==
    /\ pc' = "call"
    /\ call' = [api |-> api, site |-> site, attempt |-> 0]

CountAttempt ==
    evCalls' = IF call.api \in DOMAIN evCalls
               THEN [evCalls EXCEPT ![call.api] = @ + 1]
               ELSE evCalls

\* a test that never finds the last attempt
last_attempt_never(attempt) == FALSE

\* retry_with_backoff: attempt == max_retries - 1
last_attempt(attempt) == attempt = max_retries - 1

\* retry_with_backoff: a throttling error before the last attempt sleeps and
\* goes round the loop again
retry_with_backoff_throttled ==
    /\ pc = "call"
    /\ prog = "hourly"
    /\ throttlesLeft > 0
    /\ ~last_attempt(call.attempt)
    /\ throttlesLeft' = throttlesLeft - 1
    /\ call' = [call EXCEPT !.attempt = @ + 1]
    /\ sleeps' = sleeps + 1
    /\ CountAttempt
    /\ UNCHANGED <<inputVars, warehouseVars, csatVars, hourVars, fetches, pagingVars,
                   loaderVars, idx, pc, cacheVars, evalVars, driverVars>>

\* an attempt that sleeps before it raises
CallRaises_after_sleep(site) ==
    /\ pc = "call"
    /\ call.site = site
    /\ throttlesLeft' = throttlesLeft
    /\ CountAttempt
    /\ sleeps' = sleeps + 1

\* the attempt raises out of the call: any error that is not a throttling
\* error, or a throttling error on the last attempt of retry_with_backoff
\* (on the only attempt, for a direct call)
CallRaises(site) ==
    /\ pc = "call"
    /\ call.site = site
    /\ throttlesLeft' \in {throttlesLeft, throttlesLeft - 1}
    /\ throttlesLeft' < throttlesLeft =>
          /\ throttlesLeft > 0
          /\ prog = "hourly" => last_attempt(call.attempt)
    /\ CountAttempt
    /\ sleeps' = sleeps

CallReturns(site) ==
    /\ pc = "call"
    /\ call.site = site
    /\ CountAttempt
    /\ UNCHANGED <<throttlesLeft, sleeps>>

(***************************************************************************)
(* was_call_during_open_hours                                              *)
(***************************************************************************)
\* entry; the hourly evaluator first asks get_queue_name for its log line
was_call_during_open_hours ==
    /\ pc = "eval"
    /\ evCalls' = NoLookups
    /\ sleeps' = 0
    /\ outcome' = NoOutcome
    /\ hours_of_operation' = NoHours
    /\ IF prog = "hourly" /\ queue_name_lookup(queue_id, queue_cache)
       THEN StartCall("describe_queue", "eval_queue_name")
       ELSE pc' = "eval_branch" /\ call' = NoCall
    /\ UNCHANGED <<inputVars, warehouseVars, csatVars, hourVars, fetches, pagingVars,
                   loaderVars, idx, cacheVars, throttlesLeft, driverVars>>

\* get_queue_name, called from the evaluator: the name is cached and returned
eval_queue_name_returns ==
    /\ CallReturns("eval_queue_name")
    /\ \E name \in QueueNames : queue_cache' = [queue_cache EXCEPT ![queue_id] = name]
    /\ pc' = "eval_branch"
    /\ call' = NoCall
    /\ UNCHANGED <<inputVars, warehouseVars, csatVars, hourVars, fetches, pagingVars,
                   loaderVars, idx, agent_cache, hours_cache, evalVars, driverVars>>

\* get_queue_name catches the exception and returns None, caching nothing
eval_queue_name_raises ==
    /\ CallRaises("eval_queue_name")
    /\ pc' = "eval_branch"
    /\ call' = NoCall
    /\ UNCHANGED <<inputVars, warehouseVars, csatVars, hourVars, fetches, pagingVars,
                   loaderVars, idx, cacheVars, evalVars, driverVars>>

\* the two short circuits, then get_hours_of_operation(queue_id)
eval_branch ==
    /\ pc = "eval_branch"
    /\ LET sc == short_circuit(queue_id, initiation_timestamp, initiation_method) IN
       IF sc.kind # "continue"
       THEN /\ outcome' = sc
            /\ pc' = "eval_end"
            /\ UNCHANGED <<call, hours_of_operation>>
       ELSE /\ outcome' = outcome
            /\ IF hours_cache[queue_id].cached
               THEN /\ hours_of_operation' = hours_cache[queue_id].value
                    /\ pc' = "eval_decide"
                    /\ call' = call
               ELSE /\ StartCall("describe_queue", "hours_queue")
                    /\ hours_of_operation' = hours_of_operation
    /\ fetches' = IF short_circuit(queue_id, initiation_timestamp, initiation_method).kind
                     = "continue" /\ ~hours_cache[queue_id].cached
                  THEN [fetches EXCEPT ![queue_id] = @ + 1]
                  ELSE fetches
    /\ UNCHANGED <<inputVars, warehouseVars, csatVars, hourVars, pagingVars, loaderVars,
                   idx, cacheVars, throttlesLeft, countVars, driverVars>>

\* a cache that keeps no None
lru_cache_without_none(value) == [cached |-> value # NoHours, value |-> value]

\* @lru_cache(maxsize=100): whatever get_hours_of_operation returns is kept
lru_cache(value) == [cached |-> TRUE, value |-> value]

\* get_hours_of_operation: describe_queue answered, describe_hours_of_operation next
hours_queue_returns ==
    /\ CallReturns("hours_queue")
    /\ call' = [api |-> "describe_hours_of_operation", site |-> "hours_hours", attempt |-> 0]
    /\ UNCHANGED <<inputVars, warehouseVars, csatVars, hourVars, fetches, pagingVars,
                   loaderVars, idx, pc, cacheVars, evalVars, driverVars>>

\* get_hours_of_operation: the response's HoursOfOperation is returned; the
\* lru_cache keeps it
hours_hours_returns ==
    /\ CallReturns("hours_hours")
    /\ \E h \in ServedHours :
          /\ hours_of_operation' = h
          /\ hours_cache' = [hours_cache EXCEPT ![queue_id] = lru_cache(h)]
    /\ pc' = "eval_decide"
    /\ call' = NoCall
    /\ UNCHANGED <<inputVars, warehouseVars, csatVars, hourVars, fetches, pagingVars,
                   loaderVars, idx, queue_cache, agent_cache, outcome, driverVars>>

\* get_hours_of_operation: either call raised (or the queue has no
\* HoursOfOperationId); the except returns None, which the lru_cache keeps
hours_lookup_raises ==
    /\ \/ CallRaises("hours_queue")
       \/ CallRaises("hours_hours")
    /\ hours_of_operation' = NoHours
    /\ hours_cache' = [hours_cache EXCEPT ![queue_id] = lru_cache(NoHours)]
    /\ pc' = "eval_decide"
    /\ call' = NoCall
    /\ UNCHANGED <<inputVars, warehouseVars, csatVars, hourVars, fetches, pagingVars,
                   loaderVars, idx, queue_cache, agent_cache, outcome, driverVars>>

\* the rest of the evaluator, from "if not hours_of_operation" on
eval_decide ==
    /\ pc = "eval_decide"
    /\ outcome' = decide_with_hours(prog, initiation_timestamp, hours_of_operation)
    /\ pc' = "eval_end"
    /\ UNCHANGED <<inputVars, warehouseVars, csatVars, hourVars, fetches, pagingVars,
                   loaderVars, idx, cacheVars, hours_of_operation, call, throttlesLeft,
                   countVars, driverVars>>

NextEval ==
    \/ was_call_during_open_hours
    \/ retry_with_backoff_throttled
    \/ eval_queue_name_returns
    \/ eval_queue_name_raises
    \/ eval_branch
    \/ hours_queue_returns
    \/ hours_hours_returns
    \/ hours_lookup_raises
    \/ eval_decide

SpecEval == InitEval /\ [][NextEval]_vars

SpecDst == InitDst /\ [][NextEval]_vars

(***************************************************************************)
(* The handlers.                                                           *)
(***************************************************************************)
\* return {'statusCode': code, ...}
Respond(code) ==
    /\ response' = code
    /\ caught' = caught
    /\ pc' = "done"
    /\ call' = NoCall

\* the handler's "except Exception as e": statusCode 500, str(e) in the body
Caught(step) ==
    /\ response' = 500
    /\ caught' = step
    /\ pc' = "done"
    /\ call' = NoCall

\* an exception raised where no try surrounds it leaves lambda_handler
Escapes(step) ==
    /\ response' = Unhandled
    /\ caught' = step
    /\ pc' = "done"
    /\ call' = NoCall

\* lambda_handler up to its first remote call: the contact search (hourly) or
\* the SELECT on the warehouse table (backfill).  The hourly handler reads
\* skipS3 from the event before its try: event.get('queryStringParameters',
\* {}) is None when the key is there with a null value, and None.get raises.
lambda_handler ==
    /\ pc = "handler"
    /\ IF prog = "hourly"
       THEN IF event.query = "null"
            THEN Escapes("queryStringParameters")
            ELSE StartCall("search_contacts", "search") /\ UNCHANGED <<response, caught>>
       ELSE StartCall("bigquery_select", "select_rows") /\ UNCHANGED <<response, caught>>
    /\ UNCHANGED <<inputVars, warehouseVars, csatVars, hourVars, fetches, pagingVars,
                   loaderVars, idx, cacheVars, evalVars, throttlesLeft, countVars, names,
                   out>>

\* the for loop takes contact k, or ends after the last one
LoopTo(k) ==
    IF k <= Len(contacts)
    THEN /\ idx' = k
         /\ IF prog = "hourly"
            THEN StartCall("get_contact_attributes", "attributes")
            ELSE StartCall("describe_contact", "describe_contact")
    ELSE /\ idx' = idx
         /\ pc' = IF prog = "hourly" THEN "get_evaluations" ELSE "update"
         /\ call' = NoCall

\* search_contacts: the page arrives (one page, no NextToken)
search_returns ==
    /\ CallReturns("search")
    /\ LoopTo(1)
    /\ UNCHANGED <<inputVars, warehouseVars, csatVars, hourVars, fetches, pagingVars,
                   loaderVars, cacheVars, evalVars, driverVars>>

\* the search raises: nothing in search_contacts catches it, the handler's
\* except answers 500
search_raises ==
    /\ CallRaises("search")
    /\ Caught("search_contacts")
    /\ UNCHANGED <<inputVars, warehouseVars, csatVars, hourVars, fetches, pagingVars,
                   loaderVars, idx, cacheVars, evalVars, names, out>>

\* get_contact_attributes answers, or raises and the except takes {}; the
\* attributes feed CallerSurveyResponse1 only, which the model leaves out
attributes_returns ==
    /\ CallReturns("attributes")
    /\ pc' = "eval"
    /\ call' = NoCall
    /\ names' = NoNames
    /\ UNCHANGED <<inputVars, warehouseVars, csatVars, hourVars, fetches, pagingVars,
                   loaderVars, idx, cacheVars, evalVars, out, response, caught>>

attributes_raises ==
    /\ CallRaises("attributes")
    /\ pc' = "eval"
    /\ call' = NoCall
    /\ names' = NoNames
    /\ UNCHANGED <<inputVars, warehouseVars, csatVars, hourVars, fetches, pagingVars,
                   loaderVars, idx, cacheVars, evalVars, out, response, caught>>

\* was_call_during_open_hours raised inside search_contacts: no try surrounds
\* the call, the exception leaves the loop and the handler answers 500
hourly_evaluation_raised ==
    /\ pc = "eval_end"
    /\ prog = "hourly"
    /\ outcome.kind = "raise"
    /\ Caught("was_call_during_open_hours")
    /\ UNCHANGED <<inputVars, warehouseVars, csatVars, hourVars, fetches, pagingVars,
                   loaderVars, idx, cacheVars, evalVars, throttlesLeft, countVars, names,
                   out>>

\* get_agent_name(agent_id)
get_agent_name ==
    /\ pc = "eval_end"
    /\ prog = "hourly"
    /\ outcome.kind = "return"
    /\ IF agent_id = None
       THEN /\ names' = [names EXCEPT !.agent_name = None]
            /\ pc' = "queue_name"
            /\ call' = NoCall
       ELSE IF agent_cache[agent_id] # "absent"
       THEN /\ names' = [names EXCEPT !.agent_name = agent_cache[agent_id]]
            /\ pc' = "queue_name"
            /\ call' = NoCall
       ELSE /\ StartCall("describe_user", "agent_name")
            /\ names' = names
    /\ UNCHANGED <<inputVars, warehouseVars, csatVars, hourVars, fetches, pagingVars,
                   loaderVars, idx, cacheVars, evalVars, throttlesLeft, countVars, out,
                   response, caught>>

agent_name_returns ==
    /\ CallReturns("agent_name")
    /\ \E name \in AgentNames :
          /\ agent_cache' = [agent_cache EXCEPT ![agent_id] = name]
          /\ names' = [names EXCEPT !.agent_name = name]
    /\ pc' = "queue_name"
    /\ call' = NoCall
    /\ UNCHANGED <<inputVars, warehouseVars, csatVars, hourVars, fetches, pagingVars,
                   loaderVars, idx, queue_cache, hours_cache, evalVars, out, response,
                   caught>>

agent_name_raises ==
    /\ CallRaises("agent_name")
    /\ names' = [names EXCEPT !.agent_name = None]
    /\ pc' = "queue_name"
    /\ call' = NoCall
    /\ UNCHANGED <<inputVars, warehouseVars, csatVars, hourVars, fetches, pagingVars,
                   loaderVars, idx, cacheVars, evalVars, out, response, caught>>

\* a status that looks at the agent only
CallStatus_by_agent == IF agent_id # None THEN "HANDLED" ELSE "ABANDONED"

\* call_status of the loop body
CallStatus ==
    IF queue_id # None /\ agent_id # None THEN "HANDLED"
    ELSE IF queue_id # None THEN "QUEUE_ABANDONED"
    ELSE "ABANDONED"

\* contact_info, as far as the model follows it
contact_info(queue_name) ==
    [ContactId |-> cur.Id, AgentId |-> agent_id, AgentName |-> names.agent_name,
     QueueId |-> queue_id, QueueName |-> queue_name,
     DuringOperatingHours |-> outcome.during_hours,
     QueueTimezone |-> outcome.timezone,
     LocalCallTime |-> outcome.local_time,
     InitiationMethod |-> initiation_method,
     CallStatus |-> CallStatus]

\* contacts.append(contact_info), then the next contact
AppendContact(queue_name) ==
    /\ out' = Append(out, contact_info(queue_name))
    /\ names' = [names EXCEPT !.queue_name = queue_name]
    /\ LoopTo(idx + 1)

\* get_queue_name(queue_id) for the record's QueueName
record_queue_name ==
    /\ pc = "queue_name"
    /\ IF queue_name_lookup(queue_id, queue_cache)
       THEN /\ StartCall("describe_queue", "record_queue_name")
            /\ UNCHANGED <<idx, names, out>>
       ELSE AppendContact(IF queue_id = None THEN None ELSE queue_cache[queue_id])
    /\ UNCHANGED <<inputVars, warehouseVars, csatVars, hourVars, fetches, pagingVars,
                   loaderVars, cacheVars, evalVars, throttlesLeft, countVars, response,
                   caught>>

record_queue_name_returns ==
    /\ CallReturns("record_queue_name")
    /\ \E name \in QueueNames :
          /\ queue_cache' = [queue_cache EXCEPT ![queue_id] = name]
          /\ AppendContact(name)
    /\ UNCHANGED <<inputVars, warehouseVars, csatVars, hourVars, fetches, pagingVars,
                   loaderVars, agent_cache, hours_cache, evalVars, response, caught>>

record_queue_name_raises ==
    /\ CallRaises("record_queue_name")
    /\ AppendContact(None)
    /\ UNCHANGED <<inputVars, warehouseVars, csatVars, hourVars, fetches, pagingVars,
                   loaderVars, cacheVars, evalVars, response, caught>>

\* get_evaluations(contacts): every exception is caught per contact
get_evaluations ==
    /\ pc = "get_evaluations"
    /\ pc' = "upload"
    /\ UNCHANGED <<inputVars, warehouseVars, csatVars, hourVars, fetches, pagingVars,
                   loaderVars, idx, cacheVars, evalVars, call, throttlesLeft, countVars,
                   driverVars>>

\* skip_s3 of the handler
skip_s3 == event.query = "dict" /\ event.skipS3

\* s3_client.put_object unless skip_s3, then the 200 response; 500 when
\* put_object raises
upload ==
    /\ pc = "upload"
    /\ \/ Respond(200)
       \/ ~skip_s3 /\ Caught("put_object")
    /\ UNCHANGED <<inputVars, warehouseVars, csatVars, hourVars, fetches, pagingVars,
                   loaderVars, idx, cacheVars, evalVars, throttlesLeft, countVars, names,
                   out>>

(***************************************************************************)
(* The backfill handler.                                                   *)
(***************************************************************************)
\* the SELECT answers: existing_records, keyed by ContactId
select_rows_returns ==
    /\ CallReturns("select_rows")
    /\ LoopTo(1)
    /\ UNCHANGED <<inputVars, warehouseVars, csatVars, hourVars, fetches, pagingVars,
                   loaderVars, cacheVars, evalVars, driverVars>>

\* creating the client or the SELECT raises: the outer except answers 500
select_rows_raises ==
    /\ CallRaises("select_rows")
    /\ Caught("select")
    /\ UNCHANGED <<inputVars, warehouseVars, csatVars, hourVars, fetches, pagingVars,
                   loaderVars, idx, cacheVars, evalVars, names, out>>

\* describe_contact raises: the loop's except prints and continues
describe_contact_raises ==
    /\ CallRaises("describe_contact")
    /\ LoopTo(idx + 1)
    /\ UNCHANGED <<inputVars, warehouseVars, csatVars, hourVars, fetches, pagingVars,
                   loaderVars, cacheVars, evalVars, driverVars>>

\* get_queue_name gave queue_name: 400 when it is None, else the evaluation
WithQueueName(queue_name) ==
    /\ names' = [queue_name |-> queue_name, agent_name |-> None]
    /\ IF queue_name = None
       THEN Respond(400)
       ELSE /\ pc' = "eval"
            /\ call' = NoCall
            /\ UNCHANGED <<response, caught>>

\* describe_contact answers: 400 without a queue id, else get_queue_name
describe_contact_returns ==
    /\ CallReturns("describe_contact")
    /\ IF queue_id = None
       THEN /\ Respond(400)
            /\ names' = NoNames
       ELSE IF queue_cache[queue_id] # "absent"
       THEN WithQueueName(queue_cache[queue_id])
       ELSE /\ StartCall("describe_queue", "backfill_queue_name")
            /\ names' = NoNames
            /\ UNCHANGED <<response, caught>>
    /\ UNCHANGED <<inputVars, warehouseVars, csatVars, hourVars, fetches, pagingVars,
                   loaderVars, idx, cacheVars, evalVars, out>>

backfill_queue_name_returns ==
    /\ CallReturns("backfill_queue_name")
    /\ \E name \in QueueNames :
          /\ queue_cache' = [queue_cache EXCEPT ![queue_id] = name]
          /\ WithQueueName(name)
    /\ UNCHANGED <<inputVars, warehouseVars, csatVars, hourVars, fetches, pagingVars,
                   loaderVars, idx, agent_cache, hours_cache, evalVars, out>>

backfill_queue_name_raises ==
    /\ CallRaises("backfill_queue_name")
    /\ WithQueueName(None)
    /\ UNCHANGED <<inputVars, warehouseVars, csatVars, hourVars, fetches, pagingVars,
                   loaderVars, idx, cacheVars, evalVars, out>>

\* was_call_during_open_hours raised inside the loop's try: the except
\* prints and continues with the next contact
backfill_evaluation_raised ==
    /\ pc = "eval_end"
    /\ prog = "backfill"
    /\ outcome.kind = "raise"
    /\ LoopTo(idx + 1)
    /\ UNCHANGED <<inputVars, warehouseVars, csatVars, hourVars, fetches, pagingVars,
                   loaderVars, cacheVars, evalVars, throttlesLeft, countVars, driverVars>>

\* the stored row names another queue than the contact's: ValueError
QueueMismatch ==
    /\ cur.RowQueueId # None
    /\ cur.RowQueueName # None
    /\ queue_id # cur.RowQueueId \/ names.queue_name # cur.RowQueueName

update_record ==
    [EvaluationId |-> cur.EvaluationId,
     QueueTimezone |-> outcome.timezone,
     LocalCallTime |-> outcome.local_time,
     InitiationMethod |-> initiation_method,
     DuringOperatingHours |-> outcome.during_hours,
     CallStatus |-> CallStatus]

\* the rest of the loop body: the queue check, then updates.append(update)
append_update ==
    /\ pc = "eval_end"
    /\ prog = "backfill"
    /\ outcome.kind = "return"
    /\ out' = IF QueueMismatch THEN out ELSE Append(out, update_record)
    /\ LoopTo(idx + 1)
    /\ UNCHANGED <<inputVars, warehouseVars, csatVars, hourVars, fetches, pagingVars,
                   loaderVars, cacheVars, evalVars, throttlesLeft, countVars, names,
                   response, caught>>

\* UPDATE statements issued while the loop is still running
update_rows_inside_loop ==
    /\ prog = "backfill"
    /\ out # <<>>
    /\ updated' = {out[i].EvaluationId : i \in 1..Len(out)}
    /\ UNCHANGED <<inputVars, query_result, csatVars, hourVars, fetches, pagingVars,
                   loaderVars, idx, pc, cacheVars, evalVars, call, throttlesLeft, countVars,
                   driverVars>>

\* after the loop: one UPDATE for each of the updates, in order, then the
\* 200 response; 500 when one of them raises, with those before it done
update_rows ==
    /\ pc = "update"
    /\ \E done \in 0..Len(out) :
          /\ updated' = {out[i].EvaluationId : i \in 1..done}
          /\ IF done = Len(out) THEN Respond(200) ELSE Caught("update")
    /\ UNCHANGED <<inputVars, query_result, csatVars, hourVars, fetches, pagingVars,
                   loaderVars, idx, cacheVars, evalVars, throttlesLeft, countVars, names,
                   out>>

Next ==
    \/ NextEval
    \/ lambda_handler
    \/ search_returns
    \/ search_raises
    \/ attributes_returns
    \/ attributes_raises
    \/ hourly_evaluation_raised
    \/ get_agent_name
    \/ agent_name_returns
    \/ agent_name_raises
    \/ record_queue_name
    \/ record_queue_name_returns
    \/ record_queue_name_raises
    \/ get_evaluations
    \/ upload
    \/ select_rows_returns
    \/ select_rows_raises
    \/ describe_contact_returns
    \/ describe_contact_raises
    \/ backfill_queue_name_returns
    \/ backfill_queue_name_raises
    \/ backfill_evaluation_raised
    \/ append_update
    \/ update_rows

Spec == Init /\ [][Next]_vars

(***************************************************************************)
(* The warehouse loader: lambda_looker/package/lambda_function.py          *)
(* ("loader_csv") and lambda_looker/package/lambda_looker.py               *)
(* ("loader_json").  Each run is a call of lambda_handler; all runs get    *)
(* the same event and the same answer of the report API.                   *)
(***************************************************************************)
Range(seq) == {seq[i] : i \in 1..Len(seq)}

\* [record for record in records if record.get('EvaluationId') not in existing_ids]
RECURSIVE records_to_load(_, _)
records_to_load(records, existing_ids) ==
    IF records = <<>> THEN <<>>
    ELSE IF Head(records) \in existing_ids
         THEN records_to_load(Tail(records), existing_ids)
         ELSE <<Head(records)>> \o records_to_load(Tail(records), existing_ids)

existing_ids_none(records, rows) == {}

\* the SELECT's answer: the ids asked for that the table holds
existing_ids(records, rows) == Range(records) \cap Range(rows)

extractorVars == <<inputVars, warehouseVars, csatVars, hourVars, fetches, pagingVars, idx,
                   pc, cacheVars, evalVars, names, call, throttlesLeft, countVars, out,
                   response, caught>>

\* run r returns statusCode code
Return_(r, code) == [runs EXCEPT ![r].pc = "done", ![r].statusCode = code]

\* lambda_handler up to the API request: the date of the event is validated
loader_start(r) ==
    /\ pc = "loader"
    /\ runs[r].pc = "idle"
    /\ LET started == [runs EXCEPT ![r].after = {q \in Runs : runs[q].pc = "done"},
                                   ![r].table_at_start = table]
       IN runs' = IF event.query = "null"
                  THEN [started EXCEPT ![r].pc = "done", ![r].statusCode = 500]
                  ELSE IF event.date = "invalid"
                  THEN [started EXCEPT ![r].pc = "done", ![r].statusCode = 400]
                  ELSE [started EXCEPT ![r].pc = "fetch"]
    /\ UNCHANGED <<extractorVars, api_data, table>>

\* requests.get and the parsing of its answer
loader_fetch(r) ==
    /\ pc = "loader"
    /\ runs[r].pc = "fetch"
    /\ \/ runs' = Return_(r, 500)
       \/ runs' = IF api_data.status_code # 200 THEN Return_(r, api_data.status_code)
                  ELSE IF api_data.records = <<>> THEN Return_(r, 404)
                  ELSE [runs EXCEPT ![r].pc = "client",
                                    ![r].records =
                                        IF prog = "loader_csv" /\ event.test_mode
                                        THEN <<api_data.records[1]>>
                                        ELSE api_data.records]
    /\ UNCHANGED <<extractorVars, api_data, table>>

\* the credentials and the BigQuery client
loader_client(r) ==
    /\ pc = "loader"
    /\ runs[r].pc = "client"
    /\ \/ runs' = Return_(r, 500)
       \/ runs' = [runs EXCEPT ![r].pc = "query"]
    /\ UNCHANGED <<extractorVars, api_data, table>>

\* the SELECT of the ids the table already holds, then records_to_load.
\* lambda_looker.py builds the query with bigquery.ArrayParameter, a name
\* the client library may not provide: that is the raising branch.
loader_query(r) ==
    /\ pc = "loader"
    /\ runs[r].pc = "query"
    /\ \/ runs' = Return_(r, 500)
       \/ LET found == existing_ids(runs[r].records, table)
              new == records_to_load(runs[r].records, found)
          IN runs' = IF new = <<>>
                     THEN [runs EXCEPT ![r].pc = "done", ![r].statusCode = 200,
                                       ![r].existing_ids = found]
                     ELSE [runs EXCEPT ![r].pc = "load", ![r].existing_ids = found,
                                       ![r].records_to_load = new]
    /\ UNCHANGED <<extractorVars, api_data, table>>

\* load_table_from_json(records_to_load, WRITE_APPEND) and job.result()
loader_load(r) ==
    /\ pc = "loader"
    /\ runs[r].pc = "load"
    /\ \/ runs' = Return_(r, 500) /\ table' = table
       \/ runs' = Return_(r, 200) /\ table' = table \o runs[r].records_to_load
    /\ UNCHANGED <<extractorVars, api_data>>

InitLoader ==
    /\ prog \in {"loader_csv", "loader_json"}
    /\ event \in LoaderEvents(prog)
    /\ bucket = <<>>
    /\ api_data \in {[status_code |-> 200, records |-> recs] :
                        recs \in SeqsUpTo(EvaluationIds, MaxRecords)}
                   \cup {[status_code |-> 404, records |-> <<>>]}
    /\ table \in {<<>>, <<"e1">>}
    /\ runs = [r \in Runs |-> IdleRun]
    /\ NoHourRun
    /\ NoRows
    /\ NoCsat
    /\ NoPaging
    /\ contacts = <<>>
    /\ instance = "sample"
    /\ idx = 1
    /\ pc = "loader"
    /\ EmptyCaches
    /\ fetches = [q \in QueueIds |-> 0]
    /\ hours_of_operation = NoHours
    /\ outcome = NoOutcome
    /\ names = NoNames
    /\ call = NoCall
    /\ throttlesLeft = 0
    /\ evCalls = NoLookups
    /\ sleeps = 0
    /\ out = <<>>
    /\ response = 0
    /\ caught = ""

NextLoader ==
    \E r \in Runs :
        \/ loader_start(r)
        \/ loader_fetch(r)
        \/ loader_client(r)
        \/ loader_query(r)
        \/ loader_load(r)

SpecLoader == InitLoader /\ [][NextLoader]_vars

(***************************************************************************)
(* The paged contact search: search_contacts of the hourly extractor       *)
(* ("hourly") and of get_contact_evaluations.py ("evaluations_script"),    *)
(* get_contacts of search_contacts.py ("contacts_script").                 *)
(***************************************************************************)
\* most pages of a search result, most contacts of a page
MaxPages == 3
MaxPageSize == 2

\* the results the service may hold: contact j of page p is <<p, j>>
PageChoices ==
    UNION {[1..n -> 0..MaxPageSize] : n \in 1..MaxPages}

PagesOf(sizes) == [p \in DOMAIN sizes |-> [j \in 1..sizes[p] |-> <<p, j>>]]

\* client.search_contacts: the page a request is answered with and the
\* NextToken of the response; the token of page p is p
served(token) == IF token = NoToken THEN 1 ELSE token
response_token(p) == IF p < Len(pages) THEN p + 1 ELSE NoToken
page_contacts == pages[served(requests[Len(requests)])]

\* a loop that takes every response for the last
more_pages_never(token) == FALSE

\* "if not next_token: break"
more_pages(token) == token # NoToken

\* the record appended for a contact
contact_record(contact) == [ContactId |-> contact]

\* the scripts first ask for the number of contacts (get_contact_evaluations.py
\* with MaxResults 1, search_contacts.py with a request whose contacts it does
\* not use); the hourly search has no such request
search_count ==
    /\ pc = "count"
    /\ IF prog = "hourly"
       THEN pc' = "request" /\ caught' = caught
       ELSE \/ pc' = "request" /\ caught' = caught
            \/ pc' = "done" /\ caught' = "search_contacts"
    /\ UNCHANGED <<inputVars, warehouseVars, csatVars, hourVars, fetches, pagingVars,
                   loaderVars, idx, cacheVars, evalVars, call, throttlesLeft, countVars,
                   names, out, response>>

\* one page is requested, with NextToken when next_token is set; the call
\* (with its retries) answers or raises out of the search
search_request ==
    /\ pc = "request"
    /\ requests' = Append(requests, next_token)
    /\ \/ pc' = "page" /\ idx' = 1 /\ caught' = caught
       \/ pc' = "done" /\ idx' = idx /\ caught' = "search_contacts"
    /\ UNCHANGED <<inputVars, warehouseVars, csatVars, hourVars, fetches, pages, next_token,
                   loaderVars, cacheVars, evalVars, call, throttlesLeft, countVars, names,
                   out, response>>

\* the loop over page_contacts: one record is appended; in the hourly search
\* the evaluation of the contact may raise out of the search
search_contact ==
    /\ pc = "page"
    /\ idx <= Len(page_contacts)
    /\ \/ /\ out' = Append(out, contact_record(page_contacts[idx]))
          /\ idx' = idx + 1
          /\ UNCHANGED <<pc, caught>>
       \/ /\ prog = "hourly"
          /\ pc' = "done"
          /\ caught' = "was_call_during_open_hours"
          /\ UNCHANGED <<idx, out>>
    /\ UNCHANGED <<inputVars, warehouseVars, csatVars, hourVars, fetches, pagingVars,
                   loaderVars, cacheVars, evalVars, call, throttlesLeft, countVars, names,
                   response>>

\* next_token = response.get('NextToken'); the search returns without it
search_next_page ==
    /\ pc = "page"
    /\ idx > Len(page_contacts)
    /\ next_token' = response_token(served(requests[Len(requests)]))
    /\ pc' = IF more_pages(next_token') THEN "request" ELSE "returned"
    /\ UNCHANGED <<inputVars, warehouseVars, csatVars, hourVars, fetches, pages, requests,
                   loaderVars, idx, cacheVars, evalVars, call, throttlesLeft, countVars,
                   driverVars>>

InitSearch ==
    /\ prog \in {"hourly", "evaluations_script", "contacts_script"}
    /\ NoHourRun
    /\ NoRows
    /\ NoCsat
    /\ pages \in {PagesOf(sizes) : sizes \in PageChoices}
    /\ next_token = NoToken
    /\ requests = <<>>
    /\ contacts = <<>>
    /\ instance = "sample"
    /\ event = NoQuery
    /\ bucket = <<>>
    /\ idx = 1
    /\ pc = "count"
    /\ Idle
    /\ throttlesLeft = 0
    /\ NoLoader

NextSearch ==
    \/ search_count
    \/ search_request
    \/ search_contact
    \/ search_next_page

SpecSearch == InitSearch /\ [][NextSearch]_vars

(***************************************************************************)
(* The hour an hourly run works on: get_previous_hour_range, the S3 path   *)
(* and the searched time range of lambda_handler ("hourly").               *)
(***************************************************************************)
\* most hourly runs followed
MaxHourRuns == 2

\* minute and second of the instants looked at within an hour
MinuteSeconds == {<<0, 0>>, <<30, 0>>, <<59, 59>>}

\* the instants runs start at and contacts are initiated at: the last two
\* hours of day 0 and the first two of day 1
Instants ==
    {At(dh[1], dh[2], ms[1], ms[2]) :
        dh \in {<<0, 22>>, <<0, 23>>, <<1, 0>>, <<1, 1>>}, ms \in MinuteSeconds}

\* a range that ends at the current time
get_previous_hour_range_until_now(current) ==
    [start_time |-> current - SecondsPerHour, end_time |-> current]

\* end_time = current.replace(minute=0, second=0, microsecond=0);
\* start_time = end_time - timedelta(hours=1)
get_previous_hour_range(current) ==
    LET end_time == current - (current % SecondsPerHour)
    IN [start_time |-> end_time - SecondsPerHour, end_time |-> end_time]

\* s3_path = end_time.strftime('%Y/%m/%d/%H'): the date and the hour
s3_path(range) == <<DateOf(range.end_time), HourOf(range.end_time)>>

\* client.search_contacts with TimeRange INITIATION_TIMESTAMP: the contacts
\* initiated from StartTime up to EndTime; at_end says whether the service
\* counts EndTime itself
found_contacts(range, at_end) ==
    {t \in Instants : /\ range.start_time <= t
                      /\ t < range.end_time \/ (at_end /\ t = range.end_time)}

\* time passes
clock_advances ==
    /\ pc = "scheduled"
    /\ \E t \in Instants : t > clock /\ clock' = t
    /\ UNCHANGED <<inputVars, warehouseVars, csatVars, hour_runs, fetches, pagingVars,
                   loaderVars, idx, pc, cacheVars, evalVars, call, throttlesLeft, countVars,
                   driverVars>>

\* a run starts: the time range and the S3 path are computed
hourly_time_range ==
    /\ pc = "scheduled"
    /\ Len(hour_runs) < MaxHourRuns
    /\ LET range == get_previous_hour_range(clock)
       IN hour_runs' = Append(hour_runs,
                          [now |-> clock, range |-> range, s3_path |-> s3_path(range),
                           uploaded |-> FALSE, stored |-> {}])
    /\ pc' = "search"
    /\ UNCHANGED <<inputVars, warehouseVars, csatVars, clock, fetches, pagingVars,
                   loaderVars, idx, cacheVars, evalVars, call, throttlesLeft, countVars,
                   driverVars>>

\* the contacts of the range are searched and the results are put under the
\* path (not with skipS3); the run may also end in its except
hourly_put_object ==
    /\ pc = "search"
    /\ \/ /\ ~skip_s3
          /\ \E at_end \in BOOLEAN :
                LET run == hour_runs[Len(hour_runs)]
                IN hour_runs' = [hour_runs EXCEPT ![Len(hour_runs)] =
                                    [run EXCEPT !.uploaded = TRUE,
                                                !.stored = found_contacts(run.range, at_end)]]
          /\ response' = 200
       \/ /\ skip_s3
          /\ hour_runs' = hour_runs
          /\ response' = 200
       \/ /\ hour_runs' = hour_runs
          /\ response' = 500
    /\ pc' = "scheduled"
    /\ UNCHANGED <<inputVars, warehouseVars, csatVars, clock, fetches, pagingVars,
                   loaderVars, idx, cacheVars, evalVars, call, throttlesLeft, countVars,
                   names, out, caught>>

InitHour ==
    /\ prog = "hourly"
    /\ event \in {NoQuery, Event("dict", TRUE, "absent", FALSE, FALSE)}
    /\ clock \in Instants
    /\ hour_runs = <<>>
    /\ NoRows
    /\ NoCsat
    /\ NoPaging
    /\ contacts = <<>>
    /\ instance = "sample"
    /\ bucket = <<>>
    /\ idx = 1
    /\ pc = "scheduled"
    /\ Idle
    /\ throttlesLeft = 0
    /\ NoLoader

NextHour ==
    \/ clock_advances
    \/ hourly_time_range
    \/ hourly_put_object

SpecHour == InitHour /\ [][NextHour]_vars

(***************************************************************************)
(* get_evaluations of get_csat_evaluations.py ("csat_script").  Contact i  *)
(* of contacts.json has ContactId i.                                       *)
(***************************************************************************)
skip_first_contact_count == 200
skip_contacts == TRUE

\* most contacts after the skipped ones
MaxProcessed == 3

\* EvaluationSummaryList of list_contact_evaluations for a contact: its
\* evaluations <<contact, k>>, of the wanted form or of another one
Listed(contact) ==
    IF contact % 2 = 1
    THEN <<[EvaluationId |-> <<contact, 1>>, wanted_form |-> TRUE],
           [EvaluationId |-> <<contact, 2>>, wanted_form |-> FALSE]>>
    ELSE <<[EvaluationId |-> <<contact, 1>>, wanted_form |-> TRUE]>>

contact_id == contacts[idx]

\* the records appended for the evaluations of the wanted form whose
\* describe_contact_evaluation is in described
RECURSIVE csat_records(_, _, _)
csat_records(cid, summaries, described) ==
    IF summaries = <<>> THEN <<>>
    ELSE LET evaluation == Head(summaries)
             rest == csat_records(cid, Tail(summaries), described)
         IN IF evaluation.wanted_form /\ evaluation.EvaluationId \in described
            THEN <<[ContactId |-> cid, EvaluationId |-> evaluation.EvaluationId]>> \o rest
            ELSE rest

\* "for index, contact in enumerate(contacts, 1)": the first contacts are
\* skipped, the function returns after the last one
csat_next_contact ==
    /\ pc = "contact"
    /\ IF idx > Len(contacts) THEN pc' = "returned" /\ idx' = idx
       ELSE IF skip_contacts /\ idx <= skip_first_contact_count
            THEN pc' = "contact" /\ idx' = idx + 1
            ELSE pc' = "list" /\ idx' = idx
    /\ UNCHANGED <<inputVars, warehouseVars, csatVars, hourVars, fetches, pagingVars,
                   loaderVars, cacheVars, evalVars, call, throttlesLeft, countVars,
                   driverVars>>

\* the retry loop around list_contact_evaluations: the response is assigned;
\* or another ClientError is printed and the loop is left; or the throttling
\* error of the last attempt is raised
csat_list ==
    /\ pc = "list"
    /\ \/ /\ evaluations' = [bound |-> TRUE, value |-> Listed(contact_id)]
          /\ pc' = "evaluations"
          /\ UNCHANGED <<failed_listings, caught>>
       \/ /\ failed_listings' = failed_listings \cup {contact_id}
          /\ pc' = "evaluations"
          /\ UNCHANGED <<evaluations, caught>>
       \/ /\ pc' = "done"
          /\ caught' = "list_contact_evaluations"
          /\ UNCHANGED csatVars
    /\ UNCHANGED <<inputVars, warehouseVars, hourVars, fetches, pagingVars, loaderVars, idx,
                   cacheVars, evalVars, call, throttlesLeft, countVars, names, out,
                   response>>

\* "for evaluation in evaluations.get(...)": a record for each evaluation of
\* the wanted form that describe_contact_evaluation answers for; reading an
\* unbound evaluations raises, and so does a last throttled attempt
csat_evaluations ==
    /\ pc = "evaluations"
    /\ IF ~evaluations.bound
       THEN pc' = "done" /\ caught' = "UnboundLocalError" /\ UNCHANGED <<idx, out>>
       ELSE \/ \E described \in SUBSET {e.EvaluationId : e \in Range(evaluations.value)} :
                 /\ out' = out \o csat_records(contact_id, evaluations.value, described)
                 /\ idx' = idx + 1
                 /\ pc' = "contact"
                 /\ caught' = caught
            \/ /\ pc' = "done"
               /\ caught' = "describe_contact_evaluation"
               /\ UNCHANGED <<idx, out>>
    /\ UNCHANGED <<inputVars, warehouseVars, csatVars, hourVars, fetches, pagingVars,
                   loaderVars, cacheVars, evalVars, call, throttlesLeft, countVars, names,
                   response>>

InitCsat ==
    /\ prog = "csat_script"
    /\ \E n \in {0} \cup (skip_first_contact_count..skip_first_contact_count + MaxProcessed) :
          contacts = [i \in 1..n |-> i]
    /\ NoRows
    /\ NoCsat
    /\ NoHourRun
    /\ NoPaging
    /\ instance = "sample"
    /\ event = NoQuery
    /\ bucket = <<>>
    /\ idx = 1
    /\ pc = "contact"
    /\ Idle
    /\ throttlesLeft = 0
    /\ NoLoader

NextCsat ==
    \/ csat_next_contact
    \/ csat_list
    \/ csat_evaluations

SpecCsat == InitCsat /\ [][NextCsat]_vars

(***************************************************************************)
(* retry_with_backoff on its own: one call of it around describe_queue,    *)
(* with any number of throttled attempts.                                  *)
(***************************************************************************)
\* the attempt succeeds: its result is returned (out holds the number of the
\* attempt the result comes from)
retry_with_backoff_returns ==
    /\ CallReturns("retry_with_backoff")
    /\ out' = <<call.attempt + 1>>
    /\ pc' = "done"
    /\ call' = NoCall
    /\ UNCHANGED <<inputVars, warehouseVars, csatVars, hourVars, fetches, pagingVars,
                   loaderVars, idx, cacheVars, evalVars, names, response, caught>>

\* the attempt raises and retry_with_backoff raises it again: a throttling
\* error on the last attempt, any other ClientError on any attempt
retry_with_backoff_raises ==
    /\ CallRaises("retry_with_backoff")
    /\ caught' = IF throttlesLeft' < throttlesLeft THEN "ThrottlingException" ELSE "ClientError"
    /\ pc' = "done"
    /\ call' = NoCall
    /\ UNCHANGED <<inputVars, warehouseVars, csatVars, hourVars, fetches, pagingVars,
                   loaderVars, idx, cacheVars, evalVars, names, out, response>>

InitRetry ==
    /\ prog = "hourly"
    /\ contacts = <<>>
    /\ instance = "sample"
    /\ event = NoQuery
    /\ bucket = <<>>
    /\ idx = 1
    /\ pc = "call"
    /\ call = [api |-> "describe_queue", site |-> "retry_with_backoff", attempt |-> 0]
    /\ throttlesLeft \in 0..max_retries
    /\ EmptyCaches
    /\ fetches = [q \in QueueIds |-> 0]
    /\ hours_of_operation = NoHours
    /\ outcome = NoOutcome
    /\ names = NoNames
    /\ evCalls = NoLookups
    /\ sleeps = 0
    /\ out = <<>>
    /\ response = 0
    /\ caught = ""
    /\ NoHourRun
    /\ NoRows
    /\ NoCsat
    /\ NoPaging
    /\ NoLoader

NextRetry ==
    \/ retry_with_backoff_throttled
    \/ retry_with_backoff_returns
    \/ retry_with_backoff_raises

SpecRetry == InitRetry /\ [][NextRetry]_vars

\* the loop goes on: the wrapped call answers or raises, time.sleep returns
SpecRetryFair == SpecRetry /\ WF_vars(NextRetry)

(***************************************************************************)
(* The report API: lambda_api/package/lambda_function.py ("report").       *)
(***************************************************************************)
\* the parameters are read and the date is validated; query_params is None
\* for a null queryStringParameters, and None.get raises inside the try
report_handler ==
    /\ pc = "report_handler"
    /\ IF event.query = "null" THEN Caught("queryStringParameters")
       ELSE IF event.date \in {"absent", "invalid"} THEN Respond(400)
       ELSE pc' = "list" /\ UNCHANGED <<response, caught, call>>
    /\ UNCHANGED <<inputVars, warehouseVars, csatVars, hourVars, fetches, pagingVars,
                   loaderVars, idx, cacheVars, evalVars, throttlesLeft, countVars, names,
                   out>>

\* list_objects_v2: no 'Contents' when nothing is stored under the prefix
report_list ==
    /\ pc = "list"
    /\ \/ Caught("list_objects_v2") /\ UNCHANGED <<idx, out>>
       \/ IF bucket = <<>>
          THEN Respond(404) /\ UNCHANGED <<idx, out>>
          ELSE /\ pc' = "read"
               /\ idx' = 1
               /\ out' = <<>>
               /\ UNCHANGED <<response, caught, call>>
    /\ UNCHANGED <<inputVars, warehouseVars, csatVars, hourVars, fetches, pagingVars,
                   loaderVars, cacheVars, evalVars, throttlesLeft, countVars, names>>

\* get_object and json.loads of one file; its results join combined_results
report_read ==
    /\ pc = "read"
    /\ \/ Caught("get_object") /\ UNCHANGED <<idx, out>>
       \/ IF bucket[idx].readable
          THEN /\ out' = out \o bucket[idx].results
               /\ IF idx < Len(bucket)
                  THEN idx' = idx + 1 /\ pc' = "read"
                  ELSE idx' = idx /\ pc' = "respond"
               /\ UNCHANGED <<response, caught, call>>
          ELSE Caught("json.loads") /\ UNCHANGED <<idx, out>>
    /\ UNCHANGED <<inputVars, warehouseVars, csatVars, hourVars, fetches, pagingVars,
                   loaderVars, cacheVars, evalVars, throttlesLeft, countVars, names>>

\* the CSV or the JSON answer
report_respond ==
    /\ pc = "respond"
    /\ IF event.return_csv /\ out = <<>> THEN Respond(404) ELSE Respond(200)
    /\ UNCHANGED <<inputVars, warehouseVars, csatVars, hourVars, fetches, pagingVars,
                   loaderVars, idx, cacheVars, evalVars, throttlesLeft, countVars, names,
                   out>>

StoredFiles ==
    {StoredFile(TRUE, results) : results \in SeqsUpTo(EvaluationIds, 1)}
    \cup {StoredFile(FALSE, <<>>)}

InitReport ==
    /\ prog = "report"
    /\ event \in ReportEvents
    /\ bucket \in SeqsUpTo(StoredFiles, MaxFiles)
    /\ contacts = <<>>
    /\ instance = "sample"
    /\ idx = 1
    /\ pc = "report_handler"
    /\ Idle
    /\ throttlesLeft = 0
    /\ NoHourRun
    /\ NoRows
    /\ NoCsat
    /\ NoPaging
    /\ NoLoader

NextReport ==
    \/ report_handler
    \/ report_list
    \/ report_read
    \/ report_respond

SpecReport == InitReport /\ [][NextReport]_vars

(***************************************************************************)
(* Properties of one evaluation (SpecEval).                                *)
(***************************************************************************)
Evaluated == pc = "eval_end"
Returned == Evaluated /\ outcome.kind = "return"

\* the instant a datetime denotes when a naive one is read as UTC
UtcInstant(ts) == IF ts.aware THEN ts.wall - ts.off ELSE ts.wall

\* the wall clock of the call instant in the queue's zone
LocalWall(ts, zone) == UtcInstant(ts) + UtcOffset(zone, UtcInstant(ts))

\* the evaluation got as far as the day-entry lookup: queue present, not
\* outbound, configuration and zone resolved, timestamp usable
ReachedLookup ==
    /\ Returned
    /\ queue_id # None
    /\ initiation_method # "EXTERNAL_OUTBOUND"

Zone == hours_of_operation.TimeZone
Config == hours_of_operation.Config
CallWall == LocalWall(initiation_timestamp, Zone)
CallInstant == UtcInstant(initiation_timestamp)
DayEntries == {k \in 1..Len(Config) : Config[k].Day = DayName(CallWall)}

\* the instant of h:m:00 on the call's local calendar date
OnLocalDate(hm) == InstantOf(localize(Zone, At(DateOf(CallWall), hm.Hours, hm.Minutes, 0)))

Sentinel(e) == e.StartTime = HM(0, 0) /\ e.EndTime = HM(0, 0)
Within(e) == OnLocalDate(e.StartTime) <= CallInstant /\ CallInstant <= OnLocalDate(e.EndTime)

\* C1: a call without queue id gets during_hours None, timezone "UTC" and its
\* own timestamp, unconverted, as local_time, whatever the timestamp, the
\* method and the queue configuration.
C1_NoQueueIsUnknown ==
    (Evaluated /\ queue_id = None)
        => outcome = Return("None", "UTC", isoformat(initiation_timestamp))

\* C2: every EXTERNAL_OUTBOUND call gets during_hours True, timezone "UTC" and
\* its own timestamp, unconverted, as local_time.
C2_OutboundIsOpen ==
    (Evaluated /\ initiation_method = "EXTERNAL_OUTBOUND")
        => outcome = Return("True", "UTC", isoformat(initiation_timestamp))

\* C3: with exactly one entry for the local weekday, and that entry not the
\* 00:00-00:00 sentinel, during_hours is True exactly when
\* start <= call <= end, both ends included, start and end being the entry's
\* hour:minute:00 on the call's local date.
C3_InclusiveInterval ==
    (ReachedLookup /\ Cardinality(DayEntries) = 1)
        => \A k \in DayEntries :
              ~Sentinel(Config[k])
                 => (outcome.during_hours = "True" <=> Within(Config[k]))

C3_AtEndIsOpen ==
    /\ ReachedLookup
    /\ Cardinality(DayEntries) = 1
    /\ \E k \in DayEntries : /\ ~Sentinel(Config[k])
                             /\ CallInstant = OnLocalDate(Config[k].EndTime)
    /\ Zone = "America/Chicago"
    /\ outcome.during_hours = "True"

\* C4: when the local weekday's entry is 00:00-00:00, during_hours is True
\* whatever the time of the call.
C4_SentinelIsOpen ==
    (ReachedLookup /\ \E k \in DayEntries : Sentinel(Config[k]))
        => outcome.during_hours = "True"

C4_SentinelAfternoon ==
    /\ ReachedLookup
    /\ \E k \in DayEntries : Sentinel(Config[k])
    /\ HourOf(CallWall) = 17
    /\ outcome.during_hours = "True"

\* C5: when the configuration has no entry for the local weekday,
\* during_hours is False whatever the time of the call.
C5_MissingDayIsClosed ==
    (ReachedLookup /\ DayEntries = {}) => outcome.during_hours = "False"

C5_ClosedDayWithOtherEntries ==
    /\ ReachedLookup
    /\ DayEntries = {}
    /\ Len(Config) > 0
    /\ \E k \in 1..Len(Config) :
          Config[k].Day # DayName(CallWall)
             /\ HourOf(CallWall) >= Config[k].StartTime.Hours
             /\ HourOf(CallWall) < Config[k].EndTime.Hours
    /\ outcome.during_hours = "False"

\* C6: while a call without queue id is evaluated, no describe_queue and no
\* describe_hours_of_operation is attempted, up to and including its return.
C6_NoQueueNoLookup ==
    (queue_id = None /\ pc \in {"eval_branch", "call", "eval_decide", "eval_end"})
        => evCalls = NoLookups

C6_NoQueueEvaluatedHourly ==
    Evaluated /\ queue_id = None /\ prog = "hourly" /\ outcome.kind = "return"

\* C7: when the UTC date and the local date of the call differ, the entries
\* consulted are those of the local weekday and start and end are built on
\* the local date.
C7_LocalWeekday ==
    (ReachedLookup /\ DateOf(CallInstant) # DateOf(CallWall))
        => (outcome.during_hours = "True"
               <=> \E k \in DayEntries : Sentinel(Config[k]) \/ Within(Config[k]))

C7_OpenOnLocalDayOnly ==
    /\ ReachedLookup
    /\ DateOf(CallInstant) # DateOf(CallWall)
    /\ outcome.during_hours = "True"
    /\ \A k \in 1..Len(Config) : Config[k].Day # DayName(CallInstant)

\* the evaluator's result on (queue, timestamp, method) when
\* get_hours_of_operation hands it hours
EvaluateWith(ts, hours) ==
    LET sc == short_circuit(queue_id, ts, initiation_method)
    IN IF sc.kind # "continue" THEN sc ELSE decide_with_hours(prog, ts, hours)

IsNaive == IsDatetime(initiation_timestamp) /\ ~initiation_timestamp.aware
TaggedUtc == Aware(initiation_timestamp.wall, 0)

\* C8 as stated: every evaluation of a naive timestamp gives the
\* during_hours and local_time of the same instant tagged UTC.
C8_NaiveAsUtcAlways ==
    (Evaluated /\ IsNaive)
        => LET tagged == EvaluateWith(TaggedUtc, hours_of_operation)
           IN /\ outcome.during_hours = tagged.during_hours
              /\ outcome.local_time = tagged.local_time

\* C8 amended: for a call with a queue id that is not outbound, a naive
\* timestamp is evaluated exactly as the same instant tagged UTC (same
\* during_hours, timezone and local_time, or the same error).  The two short
\* circuits agree on during_hours only: local_time is the timestamp as
\* given, hence without offset for a naive one.
C8_NaiveAsUtcWhenConverted ==
    (Evaluated /\ IsNaive)
        => LET tagged == EvaluateWith(TaggedUtc, hours_of_operation)
           IN /\ outcome.during_hours = tagged.during_hours
              /\ (queue_id # None /\ initiation_method # "EXTERNAL_OUTBOUND")
                    => outcome = tagged

C8_NaiveConverted ==
    /\ ReachedLookup
    /\ IsNaive
    /\ Zone = "Asia/Tokyo"
    /\ outcome.during_hours = "True"
    /\ outcome.local_time.offset = 9 * 60

\* C9: when the hours of operation, or their TimeZone, cannot be obtained for
\* a queued call that is not outbound, the evaluation raises and decides
\* nothing.
C9_NoConfigNoDecision ==
    (Evaluated /\ queue_id # None /\ initiation_method # "EXTERNAL_OUTBOUND"
        /\ (~hours_of_operation.found \/ hours_of_operation.TimeZone = None))
        => outcome.kind = "raise" /\ outcome.during_hours \notin {"True", "False", "None"}

C9_TimeZoneMissing ==
    /\ Evaluated
    /\ queue_id # None
    /\ hours_of_operation.found
    /\ hours_of_operation.TimeZone = None
    /\ hours_of_operation.Config # <<>>
    /\ IsDatetime(initiation_timestamp)
    /\ outcome.kind = "raise"

(***************************************************************************)
(* Properties of a run of a handler (Spec).                                *)
(***************************************************************************)
\* C10: when the evaluation of a contact raises, the handler skips that
\* contact alone: it appends nothing for it, answers no error and goes on
\* with the next contact, or with what follows the loop after the last one.
C10_FailedContactIsSkipped ==
    [][(pc = "eval_end" /\ outcome.kind = "raise")
          => /\ response' = 0
             /\ out' = out
             /\ IF idx < Len(contacts)
                THEN idx' = idx + 1 /\ pc' = "call"
                ELSE pc' \in {"get_evaluations", "update"}]_vars

\* the backfill handler does skip: a contact after a failed one is evaluated
C10_BackfillGoesOn ==
    /\ prog = "backfill"
    /\ Len(contacts) = 2
    /\ contacts[1].QueueId # None
    /\ idx = 2
    /\ pc = "eval_end"
    /\ outcome.kind = "return"
    /\ hours_cache[contacts[1].QueueId].cached
    /\ ~hours_cache[contacts[1].QueueId].value.found
    /\ contacts[1].QueueId # contacts[2].QueueId
    /\ out = <<>>

(***************************************************************************)
(* Errors, retries and effects of one evaluation (SpecEval).               *)
(***************************************************************************)
EvalSites == {"eval_queue_name", "hours_queue", "hours_hours"}

\* control is inside was_call_during_open_hours, entry included
InEvaluation ==
    \/ pc \in {"eval", "eval_branch", "eval_decide"}
    \/ pc = "call" /\ call.site \in EvalSites

Queued == queue_id # None /\ initiation_method # "EXTERNAL_OUTBOUND"

\* C11: the evaluation does not retry: from its entry to its return or
\* raise no remote call is attempted a second time (one describe_queue per
\* lookup that needs it, one describe_hours_of_operation) and nothing sleeps.
C11_NoRetryInEvaluation ==
    ((InEvaluation /\ pc # "eval") \/ Evaluated)
        => /\ sleeps = 0
           /\ call.attempt = 0
           /\ evCalls.describe_queue <= 2
           /\ evCalls.describe_hours_of_operation <= 1

\* C12: the evaluation is pure: no step of it starts a remote call or
\* changes the queue-name cache or the hours-of-operation cache.
C12_EvaluationIsPure ==
    [][InEvaluation
          => /\ pc' # "call"
             /\ queue_cache' = queue_cache
             /\ hours_cache' = hours_cache]_vars

\* C13: a queued call that is not outbound and has no timestamp fails with
\* the missing-timestamp error once its hours of operation are there (the
\* lookup failing first is the configuration error of C9).
C13_MissingTimestampIsInvalid ==
    (Evaluated /\ Queued /\ hours_of_operation.found
        /\ initiation_timestamp.kind = "none")
        => outcome = Raise("ValueError: Missing timestamp")

\* C14: a TimeZone that names no known zone makes the evaluation raise the
\* error that carries the queue id and the zone string ("Invalid timezone
\* <zone> for queue <queue id>"), and no decision.
C14_UnknownZoneIsWrapped ==
    (Evaluated /\ Queued /\ hours_of_operation.found
        /\ hours_of_operation.TimeZone \notin KnownZones \cup {None}
        /\ IsDatetime(initiation_timestamp))
        => outcome = Raise("ValueError: Invalid timezone")

\* C15: whatever during_hours comes out, an evaluation that reaches the day
\* lookup returns the queue's zone as timezone and the call instant in that
\* zone, with its offset, as local_time.
C15_ZoneAndLocalTime ==
    ReachedLookup
        => /\ outcome.timezone = Zone
           /\ outcome.local_time =
                 [date |-> DateOf(CallWall),
                  time |-> <<HourOf(CallWall), MinuteOf(CallWall), SecondOf(CallWall)>>,
                  has_offset |-> TRUE,
                  offset |-> UtcOffset(Zone, CallInstant) \div SecondsPerMinute]

C15_ClosedInChicago ==
    /\ ReachedLookup
    /\ Zone = "America/Chicago"
    /\ outcome.during_hours = "False"
    /\ outcome.local_time.offset = -360
    /\ outcome.local_time.date # DateOf(CallInstant)

(***************************************************************************)
(* Daylight-saving changes (SpecDst).                                      *)
(***************************************************************************)
OnTransitionDate == Zone = "America/Chicago" /\ DateOf(CallWall) \in {6, 132}

\* the call's local wall clock lies between the entry's start and end
WallWithin(e) ==
    /\ At(DateOf(CallWall), e.StartTime.Hours, e.StartTime.Minutes, 0) <= CallWall
    /\ CallWall <= At(DateOf(CallWall), e.EndTime.Hours, e.EndTime.Minutes, 0)

\* C16: on the date of a daylight-saving change, the repeated hour
\* included, during_hours is True exactly when the call's local wall-clock
\* time lies within [start, end] of the day's entry.
C16_DstWallClock ==
    (ReachedLookup /\ OnTransitionDate /\ Cardinality(DayEntries) = 1)
        => \A k \in DayEntries :
              ~Sentinel(Config[k])
                 => (outcome.during_hours = "True" <=> WallWithin(Config[k]))

\* away from the repeated and the skipped hour the offset of the date is
\* used: 09:00 standard time on the day the clock went back is the start
C16_StartAfterFallBack ==
    /\ ReachedLookup
    /\ OnTransitionDate
    /\ CallInstant = At(6, 15, 0, 0)
    /\ \E k \in DayEntries : Config[k].StartTime = HM(9, 0)
    /\ outcome.during_hours = "True"
    /\ outcome.local_time.offset = -360

(***************************************************************************)
(* Responses of the hourly handler (Spec).                                 *)
(***************************************************************************)
\* C18: whatever the event, the hourly lambda_handler ends with a response
\* and lets no exception out: statusCode 200 when no step raised, 500 when
\* the exception of a step was caught.
C18_AlwaysAResponse ==
    (prog = "hourly" /\ pc = "done")
        => /\ response \in {200, 500}
           /\ response = 200 <=> caught = ""

\* the empty event of test_lambda.py is answered
C18_EmptyEventAnswered ==
    /\ prog = "hourly"
    /\ event = NoQuery
    /\ bucket = <<>>
    /\ pc = "done"
    /\ response = 200
    /\ Len(out) = MaxContacts

(***************************************************************************)
(* The warehouse load (SpecLoader).                                        *)
(***************************************************************************)
\* run s started when every other run had returned, and there is one
InSequence(s) == runs[s].after = Runs \ {s} /\ runs[s].after # {}

DateMissing == event.query \in {"absent", "null"} \/ event.date = "absent"

\* the results of the files stored under the prefix, in order
RECURSIVE combined_results(_)
combined_results(files) ==
    IF files = <<>> THEN <<>> ELSE Head(files).results \o combined_results(Tail(files))

\* C19: the report API answers 400 without a date or with a malformed one,
\* 404 when nothing is stored under the date's prefix or when CSV is asked
\* for and there is no result, 200 with the combined results otherwise, and
\* 500 only for an exception met while reading the stored files.
C19_ReportAnswers ==
    (prog = "report" /\ pc = "done")
        => IF DateMissing \/ event.date = "invalid" THEN response = 400
           ELSE \/ response = 500 /\ caught \in {"list_objects_v2", "get_object", "json.loads"}
                \/ response = 404 /\ (bucket = <<>> \/ (event.return_csv /\ out = <<>>))
                \/ /\ response = 200
                   /\ bucket # <<>>
                   /\ ~(event.return_csv /\ out = <<>>)
                   /\ out = combined_results(bucket)

\* CSV asked for, files stored but without results: 404
C19_CsvWithoutResults ==
    /\ prog = "report"
    /\ pc = "done"
    /\ event.return_csv
    /\ Len(bucket) = MaxFiles
    /\ out = <<>>
    /\ response = 404

(***************************************************************************)
(* retry_with_backoff (SpecRetryFair).                                     *)
(***************************************************************************)
\* the attempts made so far, and what a finished call of retry_with_backoff
\* has done
C20_Attempts ==
    /\ evCalls.describe_queue <= max_retries
    /\ (pc = "done" /\ out # <<>>)
          => out = <<evCalls.describe_queue>> /\ sleeps = evCalls.describe_queue - 1
    /\ (pc = "done" /\ caught = "ThrottlingException")
          => evCalls.describe_queue = max_retries /\ sleeps = max_retries - 1

\* C20: retry_with_backoff terminates and calls the wrapped function at most
\* max_retries times; it returns the result of the first attempt that
\* succeeds, and when every attempt is throttled it raises the throttling
\* error right after attempt max_retries, having slept max_retries - 1 times.
C20_RetryTerminates == []C20_Attempts /\ <>(pc = "done")

\* every attempt was throttled
C20_AllAttemptsThrottled ==
    /\ pc = "done"
    /\ caught = "ThrottlingException"
    /\ evCalls.describe_queue = max_retries
    /\ sleeps = max_retries - 1

\* C21: in retry_with_backoff an error that is not a throttling error is
\* raised again at once: the attempt that met it is the last one and no sleep
\* follows it, whatever attempts came before.
C21_OtherErrorIsRaisedAtOnce ==
    [][/\ (caught = "" /\ caught' = "ClientError")
           => /\ pc' = "done"
              /\ sleeps' = sleeps
              /\ evCalls'.describe_queue = evCalls.describe_queue + 1
       /\ caught = "ClientError" => UNCHANGED <<evCalls, sleeps, caught>>]_vars

\* another error after throttled attempts
C21_OtherErrorAfterThrottling ==
    /\ pc = "done"
    /\ caught = "ClientError"
    /\ sleeps = 2
    /\ evCalls.describe_queue = 3

(***************************************************************************)
(* The paged contact search (SpecSearch).                                  *)
(***************************************************************************)
\* the records of the contacts of pages p..Len(pages), in the order served
RECURSIVE RecordsFrom(_)
RecordsFrom(p) ==
    IF p > Len(pages) THEN <<>>
    ELSE [j \in 1..Len(pages[p]) |-> contact_record(pages[p][j])] \o RecordsFrom(p + 1)

\* C22: the paged contact search returns one record for every contact of
\* every page, in the order served; the first page is requested without a
\* token, each later page with the NextToken of the response before it, and
\* the loop stops at the first response without NextToken.
C22_EveryPageOnce ==
    /\ \A i \in 1..Len(requests) :
          requests[i] = IF i = 1 THEN NoToken ELSE response_token(served(requests[i - 1]))
    /\ \A i \in 1..Len(requests) - 1 : response_token(served(requests[i])) # NoToken
    /\ pc = "returned"
          => /\ out = RecordsFrom(1)
             /\ response_token(served(requests[Len(requests)])) = NoToken

\* a search over the most pages, all of them full
C22_ThreeFullPages ==
    /\ pc = "returned"
    /\ Len(pages) = MaxPages
    /\ Len(out) = MaxPages * MaxPageSize
    /\ requests = <<NoToken, 2, 3>>

(***************************************************************************)
(* The cache of get_hours_of_operation within one handler run (Spec).      *)
(***************************************************************************)
\* C23: within one handler run the hours of operation of a queue id are
\* fetched remotely at most once; after a fetch, successful or failed, every
\* evaluation for that queue is served from the cache.
C23_OneFetchPerQueue ==
    \A q \in QueueIds :
        /\ fetches[q] <= 1
        /\ (fetches[q] = 1 /\ ~hours_cache[q].cached)
              => pc = "call" /\ call.site \in {"hours_queue", "hours_hours"}

\* the second contact of a queue whose fetch failed is decided from the cache
C23_FailedFetchIsCached ==
    /\ Len(contacts) = 2
    /\ idx = 2
    /\ contacts[1].QueueId = "q1"
    /\ contacts[2].QueueId = "q1"
    /\ pc = "eval_decide"
    /\ fetches["q1"] = 1
    /\ hours_cache["q1"] = lru_cache(NoHours)

(***************************************************************************)
(* The hour of an hourly run (SpecHour).                                   *)
(***************************************************************************)
\* the number of the clock hour an instant lies in
ClockHour(t) == t \div SecondsPerHour

\* C24: get_previous_hour_range returns end = the current time truncated to
\* the hour and start = end minus one hour: the range is the last completed
\* hour, and runs started in consecutive clock hours search adjacent ranges.
C24_LastCompletedHour ==
    /\ \A i \in 1..Len(hour_runs) :
          LET run == hour_runs[i] IN
          /\ run.range.end_time % SecondsPerHour = 0
          /\ run.range.end_time <= run.now
          /\ run.now < run.range.end_time + SecondsPerHour
          /\ run.range.start_time = run.range.end_time - SecondsPerHour
    /\ \A i, j \in 1..Len(hour_runs) :
          ClockHour(hour_runs[j].now) = ClockHour(hour_runs[i].now) + 1
              => hour_runs[j].range.start_time = hour_runs[i].range.end_time

\* two runs in consecutive clock hours, the first late and the second early
C24_ConsecutiveHours ==
    /\ Len(hour_runs) = 2
    /\ hour_runs[1].now = At(0, 23, 59, 59)
    /\ hour_runs[2].now = At(1, 0, 0, 0)

\* C25: the S3 key of an hourly run names the hour being processed: every
\* contact stored under prefix YYYY/MM/DD/HH was initiated in that UTC hour
\* of that date, so the report API's answer for a date holds the results of
\* the contacts initiated on that date.
C25_KeyNamesTheHour ==
    \A i \in 1..Len(hour_runs) :
        \A t \in hour_runs[i].stored :
            hour_runs[i].s3_path = <<DateOf(t), HourOf(t)>>

\* a run just after midnight has stored the contacts of the hour before it
C25_StoredAfterMidnight ==
    /\ Len(hour_runs) = 1
    /\ hour_runs[1].uploaded
    /\ hour_runs[1].now = At(1, 0, 30, 0)
    /\ At(0, 23, 30, 0) \in hour_runs[1].stored

(***************************************************************************)
(* get_evaluations of get_csat_evaluations.py (SpecCsat).                  *)
(***************************************************************************)
\* C26: every record of the results pairs a ContactId with an evaluation
\* listed for that contact, also when the listing of some contact fails with
\* an error that is no throttling: such a contact contributes no record.
C26_RecordsPairOwnEvaluations ==
    prog = "csat_script"
        => \A i \in 1..Len(out) :
              /\ out[i].EvaluationId \in {e.EvaluationId : e \in Range(Listed(out[i].ContactId))}
              /\ out[i].ContactId \notin failed_listings

\* the listing of the second contact processed failed and the script went on
C26_FailedListingPassed ==
    /\ prog = "csat_script"
    /\ pc = "returned"
    /\ failed_listings = {skip_first_contact_count + 2}
    /\ Len(out) >= 1

(***************************************************************************)
(* Rows of the warehouse table (SpecLoader).                               *)
(***************************************************************************)
\* C27: after any sequence or interleaving of loader runs no EvaluationId is
\* in more than one row of the warehouse table, also when the API data of a
\* run repeats an EvaluationId or when two runs overlap between the
\* existence check and the append.
C27_NoDuplicateRows ==
    \A i, j \in 1..Len(table) : table[i] = table[j] => i = j

\* two runs have both passed the existence check before either appended
C27_RunsOverlap ==
    /\ runs[1].pc = "load"
    /\ runs[2].pc = "load"
    /\ runs[1].records_to_load # <<>>
    /\ runs[2].records_to_load # <<>>

(***************************************************************************)
(* The contact records of the hourly search (Spec).                        *)
(***************************************************************************)
\* C28: in every contact record of the hourly search DuringOperatingHours is
\* None exactly when CallStatus is ABANDONED, that is exactly when the contact
\* has no queue id; with a queue id CallStatus is HANDLED with an agent id and
\* QUEUE_ABANDONED without, and DuringOperatingHours is true or false.
C28_StatusAndHoursAgree ==
    prog = "hourly"
        => \A i \in 1..Len(out) :
              LET record == out[i] IN
              /\ record.DuringOperatingHours = None <=> record.CallStatus = "ABANDONED"
              /\ record.CallStatus = "ABANDONED" <=> record.QueueId = None
              /\ record.QueueId # None
                    => /\ record.CallStatus
                            = IF record.AgentId # None THEN "HANDLED" ELSE "QUEUE_ABANDONED"
                       /\ record.DuringOperatingHours \in {"True", "False"}

\* a record of each kind: abandoned before the queue, then abandoned in it
C28_AbandonedAndQueueAbandoned ==
    /\ prog = "hourly"
    /\ Len(out) = 2
    /\ out[1].CallStatus = "ABANDONED"
    /\ out[1].DuringOperatingHours = None
    /\ out[2].CallStatus = "QUEUE_ABANDONED"
    /\ out[2].DuringOperatingHours = "False"

(***************************************************************************)
(* The rows the backfill changes (Spec).                                   *)
(***************************************************************************)
\* C29: a backfill run that returns 400 (a contact without queue id, a queue
\* without name) has modified no warehouse row: UPDATEs are issued only after
\* the loop over all contacts has finished.
C29_NoUpdateBeforeLoopEnds ==
    prog = "backfill"
        => /\ response = 400 => updated = {}
           /\ updated # {} => pc = "done" /\ response \in {200, 500} /\ idx = Len(contacts)

\* the second contact has no queue id after an update was prepared for the first
C29_BadRequestAfterPreparedUpdate ==
    /\ prog = "backfill"
    /\ response = 400
    /\ Len(out) = 1
    /\ idx = 2
    /\ updated = {}

\* C30: after a backfill run in which no contact fails, every row read from
\* the table at the start has had its hours-related columns updated: one
\* update is prepared for each EvaluationId read, also when several
\* evaluations share one ContactId.
C30_EveryRowReadIsUpdated ==
    (prog = "backfill" /\ pc = "done" /\ response = 200 /\ Len(out) = Len(contacts))
        => /\ \A i \in 1..Len(query_result) : query_result[i].EvaluationId \in updated
           /\ Len(out) = Len(query_result)

\* a run without failure over rows of distinct contacts
C30_AllRowsOfDistinctContacts ==
    /\ prog = "backfill"
    /\ pc = "done"
    /\ response = 200
    /\ Len(query_result) = 2
    /\ Len(out) = 2
    /\ updated = {query_result[1].EvaluationId, query_result[2].EvaluationId}

====
